---- MODULE Spec2Model ----
(***************************************************************************)
(* Verification model of nicolai-jsonrpc: the JSON-RPC dispatcher          *)
(* (src/rpc.js, first copy, lines 1-333), the parameter validator          *)
(* (src/checkParameters.js) and the session manager                        *)
(* (src/unnamed/part_000).                                                 *)
(***************************************************************************)
EXTENDS Integers, Sequences, FiniteSets, TLC

(***************************************************************************)
(* JSON values.  Every value is a tagged record; each tag keeps its        *)
(* payload in a field of its own.  An object is the sequence of its        *)
(* <<key, value>> pairs in insertion order (the order of `for ... in`).    *)
(***************************************************************************)
VNull == [t |-> "null"]
VUndef == [t |-> "undefined"]
VStr(s) == [t |-> "string", s |-> s]
VNum(n) == [t |-> "number", n |-> n]
VBool(b) == [t |-> "boolean", b |-> b]
VArr(a) == [t |-> "array", a |-> a]
VObj(o) == [t |-> "object", o |-> o]

\* typeof with booleans reported as numbers.
TypeOfBooleanAsNumber(v) ==
    IF v.t \in {"null", "array", "object"} THEN "object"
    ELSE IF v.t = "boolean" THEN "number" ELSE v.t

\* JavaScript's typeof: null and arrays are "object".
TypeOf(v) ==
    IF v.t \in {"null", "array", "object"} THEN "object" ELSE v.t

IsArray(v) == v.t = "array"

HasKey(pairs, key) == \E i \in 1..Len(pairs) : pairs[i][1] = key

GetKey(pairs, key) ==
    IF HasKey(pairs, key)
    THEN pairs[CHOOSE i \in 1..Len(pairs) : pairs[i][1] = key][2]
    ELSE VUndef

(***************************************************************************)
(* Constraint trees.  A constraint is a list of alternatives (KAlts) or    *)
(* an object (KNode) whose fields are tagged: a string (KS), a list of     *)
(* strings (KL), an ordered key map (KMap) or a nested constraint.         *)
(***************************************************************************)
KS(s) == [k |-> "s", s |-> s]
KL(l) == [k |-> "l", l |-> l]
KMap(m) == [k |-> "map", m |-> m]
KAlts(l) == [k |-> "alts", l |-> l]
KNode(f) == [k |-> "obj", f |-> f]

Has(c, field) == field \in DOMAIN c.f

\* Array.join(", ")
RECURSIVE Join(_)
Join(l) ==
    IF Len(l) = 0 THEN ""
    ELSE IF Len(l) = 1 THEN l[1]
    ELSE l[1] \o ", " \o Join(Tail(l))

\* The [result, reason] pair of the validator; threw marks a thrown Error
\* whose message is reason.
Res(ok, reason) == [ok |-> ok, reason |-> reason, threw |-> FALSE]
Threw(reason) == [ok |-> FALSE, reason |-> reason, threw |-> TRUE]

\* The required keys of an object constraint as the code reads them:
\* `contains` stands in for an undefined `required` (checkObject assigns it).
RequiredOf(c) ==
    IF Has(c, "required") THEN c.f.required
    ELSE IF Has(c, "contains") /\ c.f.contains.k \in {"map", "l"} THEN c.f.contains
    ELSE [k |-> "none"]

\* The keys `for (item in required)` enumerates: the keys of a map, the
\* indices of an array.
RequiredItems(req) ==
    IF req.k = "map" THEN [i \in 1..Len(req.m) |-> req.m[i][1]]
    ELSE IF req.k = "l" THEN [i \in 1..Len(req.l) |-> ToString(i - 1)]
    ELSE <<>>

\* `item in constraints.required`
InRequired(req, item) ==
    \/ req.k = "map" /\ HasKey(req.m, item)
    \/ req.k = "l" /\ \E i \in 1..Len(req.l) : req.l[i] = item \/ ToString(i - 1) = item

RECURSIVE checkParameters(_, _, _)
RECURSIVE checkAlternatives(_, _, _, _)
RECURSIVE checkTypes(_, _, _, _)
RECURSIVE checkArrayItems(_, _, _, _)
RECURSIVE checkRequired(_, _, _, _, _)
RECURSIVE checkStray(_, _, _, _, _)

\* checkParameters, the loop over an array of constraints.
checkAlternatives(parameters, alts, path, index) ==
    IF index >= Len(alts)
    THEN Res(FALSE, "Supplied parameters don't match with any of the accepted types ("
                    \o path \o ")")
    ELSE LET r == checkParameters(parameters, alts[index + 1],
                                  "{" \o ToString(index) \o "}" \o path)
         IN IF r.threw \/ r.ok THEN r
            ELSE checkAlternatives(parameters, alts, path, index + 1)

\* checkParameters, the loop over constraints.type when it is an array.
checkTypes(parameters, types, path, typeIndex) ==
    IF typeIndex >= Len(types)
    THEN Res(FALSE, "Constraints specify to accept any of " \o Join(types)
                    \o " (" \o path \o ")")
    ELSE LET r == checkParameters(parameters, KNode([type |-> KS(types[typeIndex + 1])]),
                                  "<" \o ToString(typeIndex) \o ">" \o path)
         IN IF r.threw \/ r.ok THEN r
            ELSE checkTypes(parameters, types, path, typeIndex + 1)

\* checkArray, the loop over the elements: each is checked against the
\* wrapper { type: constraints.contains }.
checkArrayItems(items, contains, path, index) ==
    IF index >= Len(items)
    THEN Res(TRUE, "Array contents match the constraints (" \o path \o ")")
    ELSE LET r == checkParameters(items[index + 1], KNode([type |-> contains]),
                                  "[" \o ToString(index) \o "]" \o path)
         IN IF r.threw \/ ~r.ok THEN r
            ELSE checkArrayItems(items, contains, path, index + 1)

checkArray(parameters, constraints, path) ==
    LET n == Len(parameters.a) IN
    IF Has(constraints, "length") /\ n # constraints.f.length
    THEN Res(FALSE, "Expected an array with " \o ToString(constraints.f.length)
                    \o " elements, found " \o ToString(n) \o " elements (" \o path \o ")")
    ELSE IF Has(constraints, "minlength") /\ n < constraints.f.minlength
    THEN Res(FALSE, "Expected an array with at least " \o ToString(constraints.f.minlength)
                    \o " elements, found " \o ToString(n) \o " elements (" \o path \o ")")
    ELSE IF Has(constraints, "maxlength") /\ n > constraints.f.maxlength
    THEN Res(FALSE, "Expected an array with at most " \o ToString(constraints.f.maxlength)
                    \o " elements, found " \o ToString(n) \o " elements (" \o path \o ")")
    ELSE IF Has(constraints, "contains")
    THEN checkArrayItems(parameters.a, constraints.f.contains, path, 0)
    ELSE Res(TRUE, "Array contents match the constraints (" \o path \o ")")

\* checkObject, the loop over the required keys.
checkRequired(parameters, req, items, path, index) ==
    IF index > Len(items) THEN Res(TRUE, "")
    ELSE LET item == items[index] IN
         IF parameters.t = "null"
         THEN Threw("Cannot read properties of null (reading '" \o item \o "')")
         ELSE IF ~HasKey(parameters.o, item)
         THEN Res(FALSE, "Object is missing required parameter '" \o item
                         \o "' (" \o path \o ")")
         ELSE IF req.k = "map" /\ req.m[index][2].k \in {"obj", "alts"}
         THEN LET r == checkParameters(GetKey(parameters.o, item), req.m[index][2],
                                       path \o item \o "/")
              IN IF r.threw THEN r
                 ELSE IF ~r.ok THEN Res(FALSE, r.reason)
                 ELSE checkRequired(parameters, req, items, path, index + 1)
         ELSE checkRequired(parameters, req, items, path, index + 1)

\* checkObject, the loop over the keys of the value (stray keys, optional keys).
checkStray(pairs, req, constraints, path, index) ==
    IF index > Len(pairs)
    THEN Res(TRUE, "Object matches the constraints (" \o path \o ")")
    ELSE LET item == pairs[index][1] IN
         IF InRequired(req, item)
         THEN checkStray(pairs, req, constraints, path, index + 1)
         ELSE IF Has(constraints, "optional") /\ HasKey(constraints.f.optional.m, item)
         THEN LET opt == GetKey(constraints.f.optional.m, item) IN
              IF opt.k = "obj" /\ Has(opt, "type")
              THEN LET r == checkParameters(pairs[index][2], opt, path \o item \o "/")
                   IN IF r.threw THEN r
                      ELSE IF ~r.ok THEN Res(FALSE, r.reason)
                      ELSE checkStray(pairs, req, constraints, path, index + 1)
              ELSE checkStray(pairs, req, constraints, path, index + 1)
         ELSE Res(FALSE, "Found stray parameter " \o item \o " (" \o path \o ")")

checkObject(parameters, constraints, path) ==
    LET req == RequiredOf(constraints) IN
    IF req.k = "none" /\ ~Has(constraints, "optional")
    THEN Res(TRUE, "Object has no further constraints (" \o path \o ")")
    ELSE LET r == checkRequired(parameters, req, RequiredItems(req), path, 1) IN
         IF r.threw \/ ~r.ok THEN r
         ELSE checkStray(IF parameters.t = "null" THEN <<>> ELSE parameters.o,
                         req, constraints, path, 1)

checkParameters(parameters, constraints, path) ==
    IF constraints.k = "alts"
    THEN checkAlternatives(parameters, constraints.l, path, 0)
    ELSE IF constraints.k # "obj"
    THEN Threw("Expected constraints to be an object")
    ELSE IF Has(constraints, "type") /\ constraints.f.type.k = "l"
    THEN checkTypes(parameters, constraints.f.type.l, path, 0)
    ELSE IF ~Has(constraints, "type")
    THEN Res(TRUE, "Constraints don't specify a type")
    ELSE IF constraints.f.type.k # "s"
    THEN Threw("Expected constraints to contain a type (string)")
    ELSE LET type == constraints.f.type.s IN
         CASE type = "any" ->
                Res(TRUE, "Constraints specify to accept everything (" \o path \o ")")
           [] type \in {"none", "null"} ->
                Res(parameters.t = "null",
                    "Constraints specify to accept no parameters (" \o path \o ")")
           [] type = "array" ->
                IF IsArray(parameters)
                THEN checkArray(parameters, constraints, path)
                ELSE Res(FALSE, "Constraints specify to accept an array (" \o path \o ")")
           [] type = "object" ->
                IF IsArray(parameters)
                THEN Res(FALSE, "Constraints specify to accept an object, not an array ("
                                \o path \o ")")
                ELSE IF TypeOf(parameters) = "object"
                THEN checkObject(parameters, constraints, path)
                ELSE Res(FALSE, "Constraints specify to accept an object (" \o path \o ")")
           [] OTHER ->
                Res(TypeOf(parameters) = type,
                    "Constraints specify to accept a " \o type \o " (" \o path \o ")")

(***************************************************************************)
(* Bounds of the model.                                                    *)
(***************************************************************************)
\* Largest number of members of one batch.
MaxBatch == 2
\* Largest number of sessions created in one behaviour.
MaxSessions == 2

(***************************************************************************)
(* Ordered maps (JavaScript objects used as dictionaries): sequences of    *)
(* <<key, value>> pairs in insertion order.                                *)
(***************************************************************************)
PutKey(pairs, key, val) ==
    IF HasKey(pairs, key)
    THEN [i \in 1..Len(pairs) |-> IF pairs[i][1] = key THEN <<key, val>> ELSE pairs[i]]
    ELSE Append(pairs, <<key, val>>)

DelKey(pairs, key) == SelectSeq(pairs, LAMBDA p : p[1] # key)

\* Object.assign(target, source) on objects given as records.
ObjectAssign(target, source) ==
    [f \in DOMAIN target \cup DOMAIN source |->
        IF f \in DOMAIN source THEN source[f] ELSE target[f]]

(***************************************************************************)
(* Rpc: the error templates, the method registry.                          *)
(***************************************************************************)
\* this._errors as the constructor builds it.
InitialErrors ==
    [parse        |-> [code |-> -32700, message |-> "Parse error"],
     invalid      |-> [code |-> -32600, message |-> "Invalid Request"],
     method       |-> [code |-> -32601, message |-> "Method not found"],
     parameters   |-> [code |-> -32602, message |-> "Invalid params"],
     internal     |-> [code |-> -32603, message |-> "Internal error"],
     permission   |-> [code |-> -32000, message |-> "Access denied"],
     invalidToken |-> [code |-> -32001, message |-> "Invalid token"],
     returnString |-> [code |-> -32002, message |-> ""],
     returnError  |-> [code |-> -32003, message |-> ""],
     returnCustom |-> [code |-> -32004, message |-> ""]]

\* Rpc.listMethods(true, true): the names of the public methods, in
\* registry order.
RECURSIVE listPublicMethods(_)
listPublicMethods(ms) ==
    IF Len(ms) = 0 THEN <<>>
    ELSE IF ms[1][2].public
         THEN <<ms[1][1]>> \o listPublicMethods(Tail(ms))
         ELSE listPublicMethods(Tail(ms))

\* One registry entry (this._methods[name]).
Entry(handler, parameterSchema, isPublic) ==
    [handler |-> handler, parameterSchema |-> parameterSchema, public |-> isPublic,
     resultSchema |-> [resultOf |-> handler]]

TypeNode(type) == KNode([type |-> KS(type)])

(***************************************************************************)
(* SessionManager and Session.  Permission lists are JavaScript arrays     *)
(* held by reference: heap[ref] is the array, a session's `perms` and      *)
(* the manager's `_publicMethods` are references into the heap.            *)
(***************************************************************************)
NoUser == [k |-> "none"]

\* new Session(aPermissions): the permission list is the array passed in.
NewSession(id, permsRef, time) ==
    [id |-> id, created |-> time, used |-> time, perms |-> permsRef,
     user |-> NoUser, subs |-> <<>>, conns |-> {}]

RECURSIVE Dedupe(_)
Dedupe(q) ==
    IF Len(q) = 0 THEN <<>>
    ELSE <<q[1]>> \o Dedupe(SelectSeq(Tail(q), LAMBDA e : e # q[1]))

\* The store with unreferenced arrays dropped and references renumbered in
\* order of first use (garbage collection; arrays have no identity beyond
\* who shares them).
Canon(store) ==
    LET order == Dedupe(<<store.publicMethods>>
                        \o [i \in 1..Len(store.sessions) |-> store.sessions[i].perms])
        idx(r) == CHOOSE i \in 1..Len(order) : order[i] = r
    IN [heap |-> [i \in 1..Len(order) |-> store.heap[order[i]]],
        publicMethods |-> idx(store.publicMethods),
        gcTimer |-> store.gcTimer,
        sessions |-> [i \in 1..Len(store.sessions) |->
                        [store.sessions[i] EXCEPT !.perms = idx(@)]]]

\* SessionManager.setPublicMethods(methods): a new array replaces the old.
setPublicMethods(store, names) ==
    Canon([store EXCEPT !.heap = Append(@, names),
                        !.publicMethods = Len(store.heap) + 1])

\* No timeout is pending.
NoTimer == 0

\* SessionManager constructor with a timeout configured: the first sweep is
\* scheduled.  gcTimer is the pending timeout of the sweep; successive
\* timeouts are told apart as 1 and 2.
NewStore == [heap |-> << <<>> >>, publicMethods |-> 1, sessions |-> <<>>, gcTimer |-> 1]

\* SessionManager.getSession(token): the index of the first session whose
\* identifier is the token, 0 for null.
getSession(store, token) ==
    IF \E i \in 1..Len(store.sessions) : store.sessions[i].id = token
    THEN CHOOSE i \in 1..Len(store.sessions) :
            /\ store.sessions[i].id = token
            /\ \A j \in 1..(i - 1) : store.sessions[j].id # token
    ELSE 0

\* Session.checkPermission(methodName) on the permission array and user.
checkPermission(perms, user, methodName) ==
    \/ \E index \in 1..Len(perms) : perms[index] = methodName
    \/ /\ user.k = "user"
       /\ "checkPermission" \in user.caps
       /\ methodName \in user.grants

\* Rpc.addMethod(name, callback, parameterSchema, resultSchema, isPublic).
addMethod(rpc, name, handler, parameterSchema, isPublic) ==
    LET ms == PutKey(rpc.methods, name, Entry(handler, parameterSchema, isPublic))
    IN [rpc EXCEPT !.methods = ms,
                   !.store = IF rpc.sm THEN setPublicMethods(@, listPublicMethods(ms))
                             ELSE @]

\* A sequence of rpc.addMethod calls, in order.
RECURSIVE addMethods(_, _)
addMethods(rpc, list) ==
    IF Len(list) = 0 THEN rpc
    ELSE addMethods(addMethod(rpc, list[1][1], list[1][2], list[1][3], list[1][4]),
                    Tail(list))

\* SessionManager.registerRpcMethods(rpc, "session").
registerRpcMethods(rpc) ==
    addMethods(rpc,
      << <<"session/create", "createSession", <<TypeNode("none")>>, TRUE>>,
         <<"session/destroy", "destroyCurrentSession", <<TypeNode("none")>>, TRUE>>,
         <<"session/state", "state", <<TypeNode("none")>>, TRUE>>,
         <<"session/permissions", "listPermissionsForCurrentSession",
           <<TypeNode("none")>>, TRUE>>,
         <<"session/push/subscriptions", "getSubscriptions", <<TypeNode("none")>>, TRUE>>,
         <<"session/push/subscribe", "subscribe",
           <<TypeNode("string"), KNode([type |-> KS("array"), contains |-> KS("string")])>>,
           TRUE>>,
         <<"session/push/unsubscribe", "unsubscribe",
           <<TypeNode("string"), KNode([type |-> KS("array"), contains |-> KS("string")])>>,
           TRUE>>,
         <<"session/management/list", "listSessions", <<TypeNode("none")>>, FALSE>>,
         <<"session/management/destroy", "destroySession", <<TypeNode("string")>>, FALSE>> >>)

\* Rpc constructor(aIdentity, aSessionManager, aEnablePing, aEnableUsage):
\* aEnablePing guards the registration of "usage", aEnableUsage that of "ping".
Constructor(aSessionManager, aEnablePing, aEnableUsage) ==
    LET r0 == [sm |-> aSessionManager, enableUsage |-> aEnableUsage,
               methods |-> <<>>, store |-> NewStore]
        r1 == IF aEnablePing
              THEN addMethod(r0, "usage", "usage", <<TypeNode("none")>>, TRUE)
              ELSE r0
        r2 == IF aEnableUsage
              THEN addMethod(r1, "ping", "ping", <<TypeNode("none")>>, TRUE)
              ELSE r1
    IN IF aSessionManager THEN registerRpcMethods(r2) ELSE r2

\* The methods the application registers after construction.
ApplicationMethods ==
    << <<"echo", "echo", <<TypeNode("string")>>, TRUE>>,
       <<"job", "app", <<TypeNode("string")>>, TRUE>>,
       <<"adm", "app", <<TypeNode("string"), TypeNode("number")>>, FALSE>> >>

(***************************************************************************)
(* Requests.  A batch member is null, a non-object value or an object;     *)
(* NoId and NotAString stand for an absent id and an absent or non-string  *)
(* method.  A token of NoToken is null or absent; session identifiers      *)
(* (unguessable random strings in the code) are the numbers 1, 2, ...      *)
(***************************************************************************)
NoId == -1
NullId == 0
NoToken == 0
NotAString == "<not a string>"
NoConn == "<null>"

Request(jsonrpc, id, method, params, token) ==
    [t |-> "object", jsonrpc |-> jsonrpc, id |-> id, method |-> method,
     params |-> params, token |-> token]

\* What a handler produces or throws.
Return(v) == [k |-> "return", v |-> v]
ThrowTemplate(name) == [k |-> "template", name |-> name]
ThrowString(str) == [k |-> "string", s |-> str]
ThrowError(message) == [k |-> "Error", message |-> message]
ThrowObject(fields) == [k |-> "object", fields |-> fields]
ThrowOther == [k |-> "other"]
Undecided == [k |-> "undecided"]

NoError == "<null>"

VARIABLES
    sm,        \* Rpc._sessionManager !== null
    enable,    \* the constructor's aEnablePing and aEnableUsage (Rpc._enableUsage)
    methods,   \* Rpc._methods, as an ordered map
    errors,    \* Rpc._errors, the shared error objects
    store,     \* SessionManager: the permission arrays, _publicMethods, sessions
    nextId,    \* the next fresh session identifier
    now,       \* Math.floor(Date.now() / 1000)
    hooks,     \* the "close" listeners installed on each connection
    call,      \* the handle() call in flight and its promises
    obs        \* what the application's last direct call returned

vars == <<sm, enable, methods, errors, store, nextId, now, hooks, call, obs>>

\* No direct call has returned since the last request arrived.
NoObs == [op |-> "none"]

\* token is the third argument the caller passed to handle(), which
\* declares two parameters.
IdleCall == [phase |-> "idle", kind |-> "none", conn |-> NoConn, n |-> 0,
             token |-> NoToken, members |-> <<>>, out |-> <<>>]

\* The legacy validator loop of Rpc._execute over the alternatives.
RECURSIVE validateLoop(_, _, _, _)
validateLoop(parameters, parameterSchema, i, reason) ==
    IF i >= Len(parameterSchema)
    THEN [valid |-> FALSE, reason |-> reason, threw |-> FALSE]
    ELSE LET r == checkParameters(parameters, parameterSchema[i + 1], "/") IN
         IF r.threw THEN [valid |-> FALSE, reason |-> r.reason, threw |-> TRUE]
         ELSE IF r.ok THEN [valid |-> TRUE, reason |-> r.reason, threw |-> FALSE]
         ELSE validateLoop(parameters, parameterSchema, i + 1, r.reason)

\* use() and a setConnection that fills the connection table only.
useAndBindTableOnly(st, i, connection, time) ==
    [st EXCEPT !.sessions[i].used = time,
               !.sessions[i].conns =
                    IF connection = NoConn THEN @ ELSE @ \cup {connection}]

\* Session.use() and Session.setConnection(connection) on session i.
useAndBind(st, i, connection, time) ==
    [st EXCEPT !.sessions[i].used = time,
               !.sessions[i].conns =
                    IF connection = NoConn THEN @ ELSE @ \cup {connection},
               !.sessions[i].subs =
                    IF connection = NoConn \/ HasKey(@, connection) THEN @
                    ELSE Append(@, <<connection, <<>>>>)]

\* setConnection installing its listener whether or not the connection is
\* already in the session's table.
hookAlways(hk, sess, connection) ==
    IF connection = NoConn THEN hk
    ELSE LET listener == <<connection, sess.id>> IN
         [p \in DOMAIN hk \cup {listener} |->
            IF p \in DOMAIN hk
            THEN hk[p] + (IF p = listener THEN 1 ELSE 0)
            ELSE 1]

\* The listeners after Session.setConnection(connection) of session id:
\* how many times each <<connection, session>> listener is installed.
hookAfter(hk, sess, connection) ==
    IF connection = NoConn \/ connection \in sess.conns THEN hk
    ELSE LET listener == <<connection, sess.id>> IN
         [p \in DOMAIN hk \cup {listener} |->
            IF p \in DOMAIN hk
            THEN hk[p] + (IF p = listener THEN 1 ELSE 0)
            ELSE 1]

\* SessionManager.createSession.
createSession(st, id, time) ==
    [st EXCEPT !.sessions = Append(@, NewSession(id, st.publicMethods, time))]

\* destroyCurrentSession with the removal put off until after the callback
\* has first suspended.
destroyCurrentSessionLater(st, session) == st

\* SessionManager.destroyCurrentSession(parameters, session): session is
\* the index of the request's session, 0 for null.
destroyCurrentSession(st, session) ==
    IF session = 0 THEN st
    ELSE Canon([st EXCEPT !.sessions =
                    [j \in 1..(Len(@) - 1) |-> IF j < session THEN @[j] ELSE @[j + 1]]])

\* SessionManager._destroySession(id): removes the first session whose
\* identifier is the string id.
destroySession(st, id) ==
    LET hits == {j \in 1..Len(st.sessions) :
                    id.t = "string" /\ ToString(st.sessions[j].id) = id.s}
    IN IF hits = {} THEN [result |-> FALSE, store |-> st]
       ELSE [result |-> TRUE,
             store |-> destroyCurrentSession(st, CHOOSE j \in hits :
                                                    \A k \in hits : j <= k)]

\* aIdentity as the dispatcher is constructed.
Identity == ""

\* listMethods that also copies the callback into the description.
listMethodsWithCallback(ms) ==
    [i \in 1..Len(ms) |->
        <<ms[i][1], VObj(<< <<"parameters", ms[i][2].parameterSchema>>,
                            <<"result", ms[i][2].resultSchema>>,
                            <<"public", VBool(ms[i][2].public)>>,
                            <<"callback", ms[i][2].handler>> >>)>>]

\* Rpc.listMethods(): for every registered method, in registry order, its
\* parameter schema, result schema and public flag.
listMethods(ms) ==
    [i \in 1..Len(ms) |->
        <<ms[i][1], VObj(<< <<"parameters", ms[i][2].parameterSchema>>,
                            <<"result", ms[i][2].resultSchema>>,
                            <<"public", VBool(ms[i][2].public)>> >>)>>]

\* Rpc.usage().
usage(ms) ==
    IF enable.usage
    THEN VObj(<< <<"service", VStr(Identity)>>, <<"methods", VObj(listMethods(ms))>> >>)
    ELSE VObj(<<>>)

\* An Array holding the members of a set of names.
RECURSIVE ArrayOf(_)
ArrayOf(names) ==
    IF names = {} THEN <<>>
    ELSE LET name == CHOOSE x \in names : TRUE
         IN <<name>> \o ArrayOf(names \ {name})

\* Session.getPermissions(): the session's own list followed by what the
\* user's getPermissions() returns, when the user has that function.
getPermissions(perms, user) ==
    perms \o (IF user.k = "user" /\ "getPermissions" \in user.caps
              THEN ArrayOf(user.grants) ELSE <<>>)

\* SessionManager.state(parameters, session): user.summarize() when it is a
\* function, user.serialize() otherwise.
state(st, session) ==
    IF session = 0 THEN ThrowError("No session")
    ELSE LET user == st.sessions[session].user
             permissions == getPermissions(st.heap[st.sessions[session].perms], user)
             answer(snapshot) ==
                Return(VObj(<< <<"user", snapshot>>,
                               <<"permissions",
                                 VArr([k \in 1..Len(permissions) |-> VStr(permissions[k])])>> >>))
         IN IF user.k # "user" THEN answer(VNull)
            ELSE IF "summarize" \in user.caps THEN answer(VStr("summarize()"))
            ELSE IF "serialize" \in user.caps THEN answer(VStr("serialize()"))
            ELSE ThrowError("user.serialize is not a function")

\* SessionManager.listPermissionsForCurrentSession(parameters, session).
listPermissionsForCurrentSession(st, session) ==
    IF session = 0 THEN ThrowError("No session")
    ELSE LET permissions == getPermissions(st.heap[st.sessions[session].perms],
                                           st.sessions[session].user)
         IN Return(VArr([k \in 1..Len(permissions) |-> VStr(permissions[k])]))

\* The synchronous part of the registered callback: the outcome it will
\* settle with, the store and the identifier counter it leaves.
invoke(handler, parameters, session, st, id, time) ==
    CASE handler = "ping" ->
            [outcome |-> Return(VStr("pong")), store |-> st, nextId |-> id]
      [] handler = "usage" ->
            [outcome |-> Return(usage(methods)), store |-> st, nextId |-> id]
      [] handler = "echo" ->
            [outcome |-> Return(parameters), store |-> st, nextId |-> id]
      [] handler = "createSession" ->
            [outcome |-> Return(VNum(id)), store |-> createSession(st, id, time),
             nextId |-> id + 1]
      [] handler = "destroyCurrentSession" ->
            [outcome |-> Return(VBool(session # 0)),
             store |-> destroyCurrentSession(st, session), nextId |-> id]
      [] handler = "destroySession" ->
            [outcome |-> Return(VBool(destroySession(st, parameters).result)),
             store |-> destroySession(st, parameters).store, nextId |-> id]
      [] handler = "state" ->
            [outcome |-> state(st, session), store |-> st, nextId |-> id]
      [] handler = "listPermissionsForCurrentSession" ->
            [outcome |-> listPermissionsForCurrentSession(st, session),
             store |-> st, nextId |-> id]
      [] OTHER ->
            [outcome |-> Undecided, store |-> st, nextId |-> id]

\* Rpc._execute(method, parameters, token, connection) up to the first
\* suspension: what it throws or the callback it started, and the state
\* it leaves.
execute(request, connection) ==
    LET base == [thrown |-> Undecided, invoked |-> FALSE, store |-> store,
                 errors |-> errors, nextId |-> nextId, hooks |-> hooks]
    IN
    IF ~HasKey(methods, request.method)
    THEN [base EXCEPT !.thrown = ThrowTemplate("method")]
    ELSE
    LET entry == GetKey(methods, request.method)
        session == IF sm /\ request.token # NoToken
                   THEN getSession(store, request.token) ELSE 0
        st1 == IF session # 0 THEN useAndBind(store, session, connection, now)
               ELSE store
        hk1 == IF session # 0 THEN hookAfter(hooks, store.sessions[session], connection)
               ELSE hooks
        bound == [base EXCEPT !.store = st1, !.hooks = hk1]
    IN
    IF sm /\ request.token # NoToken /\ session = 0
    THEN [base EXCEPT !.thrown = ThrowTemplate("invalidToken")]
    ELSE IF /\ sm
            /\ ~entry.public
            /\ \/ session = 0
               \/ ~checkPermission(st1.heap[st1.sessions[session].perms],
                                   st1.sessions[session].user, request.method)
    THEN [bound EXCEPT !.thrown = ThrowTemplate("permission")]
    ELSE
    LET v == validateLoop(request.params, entry.parameterSchema, 0, "") IN
    IF v.threw
    THEN [bound EXCEPT !.thrown = ThrowError(v.reason)]
    ELSE IF ~v.valid
    THEN [bound EXCEPT
            !.thrown = ThrowTemplate("parameters"),
            !.errors.parameters = ObjectAssign(@, [reason |-> v.reason])]
    ELSE
    LET h == invoke(entry.handler, request.params, session, st1, nextId, now) IN
    [bound EXCEPT !.thrown = h.outcome, !.invoked = TRUE,
                  !.store = h.store, !.nextId = h.nextId]

\* The catch block without its last branch: an error that is neither a
\* string nor an object leaves response.error null.
catchWithoutInternal(er, thrown) ==
    CASE thrown.k = "string" ->
            [errors |-> [er EXCEPT !.returnString =
                                ObjectAssign(@, [message |-> thrown.s])],
             error |-> "returnString"]
      [] thrown.k = "Error" ->
            [errors |-> [er EXCEPT !.returnError =
                                ObjectAssign(@, [message |-> thrown.message])],
             error |-> IF thrown.message = "Access denied" THEN "permission"
                       ELSE "returnError"]
      [] thrown.k = "template" ->
            [errors |-> [er EXCEPT !.returnCustom = ObjectAssign(@, er[thrown.name])],
             error |-> "returnCustom"]
      [] thrown.k = "object" ->
            [errors |-> [er EXCEPT !.returnCustom = ObjectAssign(@, thrown.fields)],
             error |-> "returnCustom"]
      [] OTHER ->
            [errors |-> er, error |-> NoError]

\* The catch block of Rpc._handle: the error objects after it and the one
\* the response refers to.
catch(er, thrown) ==
    CASE thrown.k = "string" ->
            [errors |-> [er EXCEPT !.returnString =
                                ObjectAssign(@, [message |-> thrown.s])],
             error |-> "returnString"]
      [] thrown.k = "Error" ->
            [errors |-> [er EXCEPT !.returnError =
                                ObjectAssign(@, [message |-> thrown.message])],
             error |-> IF thrown.message = "Access denied" THEN "permission"
                       ELSE "returnError"]
      [] thrown.k = "template" ->
            [errors |-> [er EXCEPT !.returnCustom = ObjectAssign(@, er[thrown.name])],
             error |-> "returnCustom"]
      [] thrown.k = "object" ->
            [errors |-> [er EXCEPT !.returnCustom = ObjectAssign(@, thrown.fields)],
             error |-> "returnCustom"]
      [] OTHER ->
            [errors |-> er, error |-> "internal"]

Response(id, result, error) == [id |-> id, result |-> result, error |-> error]

\* The first check of Rpc._handle.
ValidEnvelope(request) ==
    /\ request.t = "object"
    /\ request.jsonrpc = "2.0"
    /\ request.id # NoId
    /\ request.method # NotAString

\* What the store held when a member was dispatched (history, read only by
\* the properties).
Snapshot(request) ==
    LET owners == IF request.t = "object"
                  THEN {j \in 1..Len(store.sessions) : store.sessions[j].id = request.token}
                  ELSE {}
    IN [ids |-> {store.sessions[j].id : j \in 1..Len(store.sessions)},
        issued |-> 1..(nextId - 1),
        perms |-> IF owners = {} THEN <<>>
                  ELSE store.heap[store.sessions[CHOOSE j \in owners : TRUE].perms],
        user |-> IF owners = {} THEN NoUser
                 ELSE store.sessions[CHOOSE j \in owners : TRUE].user]

\* JSON.stringify of one response: the error object is read when the
\* response is serialized.
NullError == [null |-> TRUE]
Serialize(resp) ==
    [id |-> resp.id, result |-> resp.result,
     error |-> IF resp.error = NoError THEN NullError ELSE errors[resp.error]]

(***************************************************************************)
(* Actions.                                                                *)
(***************************************************************************)
\* Rpc.handle(request, connection) is called with one request or a batch.
Start(kind, n, connection) ==
    /\ call.phase = "idle"
    /\ call' = [IdleCall EXCEPT !.phase = "loop", !.kind = kind, !.n = n,
                                !.conn = connection]
    /\ obs' = NoObs
    /\ UNCHANGED <<sm, enable, methods, errors, store, nextId, now, hooks>>

\* One iteration of the loop of Rpc.handle: Rpc._handle(request) runs up to
\* its first suspension (the await of _execute).
Dispatch(request) ==
    /\ call.phase = "loop"
    /\ LET phase == IF Len(call.members) + 1 = call.n THEN "wait" ELSE "loop"
           add(m) == [call EXCEPT !.members = Append(@, m), !.phase = phase]
           blank == [req |-> request, pc |-> "done", thrown |-> Undecided,
                     resp |-> Response(NullId, VNull, NoError), invoked |-> FALSE,
                     pre |-> Snapshot(request)]
       IN
       IF request.t = "null" /\ call.kind = "batch"
       THEN /\ call' = add([blank EXCEPT !.pc = "crashed"])
            /\ UNCHANGED <<sm, enable, methods, errors, store, nextId, now, hooks, obs>>
       ELSE IF ~ValidEnvelope(request)
       THEN /\ call' = add([blank EXCEPT !.resp.error = "invalid"])
            /\ UNCHANGED <<sm, enable, methods, errors, store, nextId, now, hooks, obs>>
       ELSE LET e == execute(request, call.conn) IN
            /\ e.nextId <= MaxSessions + 1
            /\ call' = add([blank EXCEPT
                                !.pc = IF e.invoked THEN "running" ELSE "failed",
                                !.thrown = e.thrown,
                                !.resp.id = request.id,
                                !.invoked = e.invoked])
            /\ store' = e.store
            /\ errors' = e.errors
            /\ nextId' = e.nextId
            /\ hooks' = e.hooks
            /\ UNCHANGED <<sm, enable, methods, now, obs>>

\* The catch block of the first member whose _execute was rejected before
\* any callback ran; these continuations run in member order, ahead of
\* every callback's settlement.
Classify ==
    /\ call.phase = "wait"
    /\ \E i \in 1..Len(call.members) :
        /\ call.members[i].pc = "failed"
        /\ \A j \in 1..(i - 1) : call.members[j].pc # "failed"
        /\ LET c == catch(errors, call.members[i].thrown) IN
            /\ errors' = c.errors
            /\ call' = [call EXCEPT !.members[i].pc = "done",
                                    !.members[i].resp.error = c.error]
    /\ UNCHANGED <<sm, enable, methods, store, nextId, now, hooks, obs>>

\* The callback of member i settles with outcome o: the rest of the try
\* block of Rpc._handle, or its catch block.
Complete(i, o) ==
    /\ call.phase = "wait"
    /\ i \in 1..Len(call.members)
    /\ \A j \in 1..Len(call.members) : call.members[j].pc # "failed"
    /\ call.members[i].pc = "running"
    /\ call.members[i].thrown \in {Undecided, o}
    /\ IF o.k = "return"
       THEN /\ call' = [call EXCEPT !.members[i].pc = "done",
                                    !.members[i].thrown = o,
                                    !.members[i].resp.result = o.v]
            /\ errors' = errors
       ELSE LET c == catch(errors, o) IN
            /\ errors' = c.errors
            /\ call' = [call EXCEPT !.members[i].pc = "done",
                                    !.members[i].thrown = o,
                                    !.members[i].resp.error = c.error]
    /\ UNCHANGED <<sm, enable, methods, store, nextId, now, hooks, obs>>

\* Promise.all settles and Rpc.handle serializes what it got: an array for
\* a batch, a bare object otherwise; a rejected member rejects the call.
Finish ==
    /\ call.phase = "wait"
    /\ \A i \in 1..Len(call.members) : call.members[i].pc \in {"done", "crashed"}
    /\ call' = [call EXCEPT
            !.phase = "done",
            !.out = IF \E i \in 1..Len(call.members) : call.members[i].pc = "crashed"
                    THEN [kind |-> "rejected", resps |-> <<>>]
                    ELSE [kind |-> IF call.kind = "batch" THEN "array" ELSE "object",
                          resps |-> [i \in 1..Len(call.members) |->
                                        Serialize(call.members[i].resp)]]]
    /\ UNCHANGED <<sm, enable, methods, errors, store, nextId, now, hooks, obs>>

\* The transport sends the serialized answer; the call is over.
Deliver ==
    /\ call.phase = "done"
    /\ call' = IdleCall
    /\ UNCHANGED <<sm, enable, methods, errors, store, nextId, now, hooks, obs>>

\* addPermission without the includes() test before the push.
AddPermissionUnchecked(i, methodName) ==
    /\ call.phase = "idle"
    /\ i \in 1..Len(store.sessions)
    /\ LET ref == store.sessions[i].perms
           includes == \E k \in 1..Len(store.heap[ref]) : store.heap[ref][k] = methodName
       IN /\ store' = [store EXCEPT !.heap[ref] = Append(@, methodName)]
          /\ obs' = [op |-> "addPermission", result |-> ~includes]
    /\ UNCHANGED <<sm, enable, methods, errors, nextId, now, hooks, call>>

\* Session.addPermission(methodName) on session i: push on its array.
AddPermission(i, methodName) ==
    /\ call.phase = "idle"
    /\ i \in 1..Len(store.sessions)
    /\ LET ref == store.sessions[i].perms
           includes == \E k \in 1..Len(store.heap[ref]) : store.heap[ref][k] = methodName
       IN /\ store' = IF includes THEN store
                      ELSE [store EXCEPT !.heap[ref] = Append(@, methodName)]
          /\ obs' = [op |-> "addPermission", result |-> ~includes]
    /\ UNCHANGED <<sm, enable, methods, errors, nextId, now, hooks, call>>

\* Session.removePermission(methodName) on session i: a filtered copy
\* replaces its array.
RemovePermission(i, methodName) ==
    /\ call.phase = "idle"
    /\ i \in 1..Len(store.sessions)
    /\ LET ref == store.sessions[i].perms
           includes == \E k \in 1..Len(store.heap[ref]) : store.heap[ref][k] = methodName
       IN /\ store' = IF includes
                      THEN Canon([store EXCEPT
                                !.heap = Append(@, SelectSeq(store.heap[ref],
                                                    LAMBDA item : item # methodName)),
                                !.sessions[i].perms = Len(store.heap) + 1])
                      ELSE store
          /\ obs' = [op |-> "removePermission", result |-> includes]
    /\ UNCHANGED <<sm, enable, methods, errors, nextId, now, hooks, call>>

\* Session.setUser(user) on session i.
SetUser(i, user) ==
    /\ call.phase = "idle"
    /\ i \in 1..Len(store.sessions)
    /\ store' = [store EXCEPT !.sessions[i].user = user]
    /\ obs' = [op |-> "setUser"]
    /\ UNCHANGED <<sm, enable, methods, errors, nextId, now, hooks, call>>

(***************************************************************************)
(* The dispatcher under requests: inputs and specification.                *)
(***************************************************************************)
Tokens == 0..MaxSessions

\* What the callback of an application method may settle with.
AppOutcomes ==
    {Return(VStr("ok")), Return(VNull),
     ThrowString("e1"), ThrowString("e2"),
     ThrowError("boom"), ThrowError("Access denied"),
     ThrowObject([detail |-> "d1"]),
     ThrowOther}

AppReturns == {Return(VStr("ok"))}

\* The outcomes member i may settle with: the one its callback fixed when
\* it ran, or one of menu.
Outcomes(i, menu) ==
    IF i \in 1..Len(call.members) /\ call.members[i].thrown # Undecided
    THEN {call.members[i].thrown}
    ELSE menu

Principals ==
    {[k |-> "user", caps |-> {"checkPermission"}, grants |-> {"adm"}],
     [k |-> "user", caps |-> {}, grants |-> {"adm"}]}

\* The state after `new Rpc(identity, sessionManager, aEnablePing,
\* aEnableUsage)` and the application's addMethod calls.
InitNew(aSessionManager, aEnablePing, aEnableUsage) ==
    /\ sm = aSessionManager
    /\ enable = [ping |-> aEnablePing, usage |-> aEnableUsage]
    /\ LET rpc == addMethods(Constructor(sm, aEnablePing, aEnableUsage),
                             ApplicationMethods) IN
        /\ methods = rpc.methods
        /\ store = rpc.store
    /\ errors = InitialErrors
    /\ nextId = 1
    /\ now = 0
    /\ hooks = <<>>
    /\ call = IdleCall
    /\ obs = NoObs

\* The state after `new Rpc(identity, sessionManager)`: both flags default
\* to true.
InitWith(aSessionManager) == InitNew(aSessionManager, TRUE, TRUE)

(***************************************************************************)
(* Spec: a dispatcher with a session store, requests over one connection,  *)
(* sessions created and destroyed by request, permissions and users set    *)
(* by the application.                                                     *)
(***************************************************************************)
\* The requests member i of a call may be.
Requests(i) ==
    {Request("2.0", i, m, VNull, tk) : m \in {"ping", "missing", "session/destroy"},
                                        tk \in Tokens}
    \cup {Request("2.0", i, "adm", VStr("hi"), tk) : tk \in Tokens}
    \cup {Request("2.0", i, "session/create", VNull, NoToken)}

Init == InitWith(TRUE)

Next ==
    \/ Start("single", 1, "cA")
    \/ \E n \in 1..MaxBatch : Start("batch", n, "cA")
    \/ \E r \in Requests(Len(call.members) + 1) : Dispatch(r)
    \/ Classify
    \/ \E i \in 1..MaxBatch : \E o \in Outcomes(i, AppReturns) : Complete(i, o)
    \/ Finish
    \/ Deliver
    \/ \E i \in 1..MaxSessions : AddPermission(i, "adm")
    \/ \E i \in 1..MaxSessions : RemovePermission(i, "adm")
    \/ \E i \in 1..MaxSessions : \E u \in Principals \cup {NoUser} : SetUser(i, u)

Spec == Init /\ [][Next]_vars

(***************************************************************************)
(* SpecOutcomes: dispatchers with and without a session store, every kind  *)
(* of envelope, every dispatcher-side failure and every callback outcome.  *)
(***************************************************************************)
\* A token string that names no session.
UnknownToken == MaxSessions + 1

RequestsOutcomes(i) ==
    {Request("2.0", i, "job", VStr("hi"), NoToken),
     Request("2.0", i, "adm", VNull, NoToken),
     Request("2.0", i, "adm", VStr("hi"), NoToken),
     Request("2.0", i, "adm", VStr("hi"), UnknownToken),
     Request("2.0", i, "missing", VNull, NoToken),
     Request("1.0", i, "ping", VNull, NoToken),
     VNull}

InitOutcomes == \E aSessionManager \in BOOLEAN : InitWith(aSessionManager)

NextOutcomes ==
    \/ Start("single", 1, NoConn)
    \/ \E n \in 1..MaxBatch : Start("batch", n, NoConn)
    \/ \E r \in RequestsOutcomes(Len(call.members) + 1) : Dispatch(r)
    \/ Classify
    \/ \E i \in 1..MaxBatch : \E o \in Outcomes(i, AppOutcomes) : Complete(i, o)
    \/ Finish
    \/ Deliver

SpecOutcomes == InitOutcomes /\ [][NextOutcomes]_vars
(***************************************************************************)
(* Properties.  They read the call in flight: member i's request, whether  *)
(* its callback was invoked, what it settled with, and, once the call is   *)
(* answered, the serialized response in slot i.                            *)
(***************************************************************************)
Slots == 1..Len(call.members)

\* handle() has returned its serialized answer.
Answered == call.phase = "done" /\ call.out.kind # "rejected"

CodeOf(e) == IF "code" \in DOMAIN e THEN e.code ELSE 0
MessageOf(e) == IF "message" \in DOMAIN e THEN e.message ELSE NotAString
ReasonOf(e) == IF "reason" \in DOMAIN e THEN e.reason ELSE NotAString

\* Member i names a registered method in a well-formed envelope.
Addressed(i) ==
    /\ ValidEnvelope(call.members[i].req)
    /\ HasKey(methods, call.members[i].req.method)

\* The request of member i resolved a session when it was dispatched.
Resolved(i) == call.members[i].req.token \in call.members[i].pre.ids

\* That session is authorized for the method by exact name: the name is in
\* its own permission list, or its principal's check approves it.
Authorized(i) ==
    LET m == call.members[i] IN
    \/ \E k \in 1..Len(m.pre.perms) : m.pre.perms[k] = m.req.method
    \/ /\ m.pre.user # NoUser
       /\ "checkPermission" \in m.pre.user.caps
       /\ m.req.method \in m.pre.user.grants

\* The validator accepts the parameters of member i against an alternative.
Accepted(i) ==
    LET schema == GetKey(methods, call.members[i].req.method).parameterSchema IN
    \E a \in 1..Len(schema) :
        checkParameters(call.members[i].req.params, schema[a], "/").ok

\* C1: a callback is invoked only for a well-formed envelope naming a
\* registered method that is public or for which the request resolved an
\* authorized session, with parameters the schema accepts.
C1_HandlerOnlyAfterAllChecks ==
    \A i \in Slots :
        call.members[i].invoked =>
            /\ Addressed(i)
            /\ \/ GetKey(methods, call.members[i].req.method).public
               \/ Resolved(i) /\ Authorized(i)
            /\ Accepted(i)

\* C2: a request without a token for a registered non-public method never
\* reaches the callback and is answered with code -32000, with or without
\* a session store.
C2_PrivateWithoutTokenDenied ==
    \A i \in Slots :
        (/\ Addressed(i)
         /\ ~GetKey(methods, call.members[i].req.method).public
         /\ call.members[i].req.token = NoToken)
        => /\ ~call.members[i].invoked
           /\ Answered => CodeOf(call.out.resps[i].error) = -32000

\* C3: a request whose non-null token names no session never reaches a
\* callback and is answered with code -32001, whatever method it names.
C3_UnknownTokenIsInvalidToken ==
    \A i \in Slots :
        (/\ ValidEnvelope(call.members[i].req)
         /\ call.members[i].req.token # NoToken
         /\ ~Resolved(i))
        => /\ ~call.members[i].invoked
           /\ Answered => CodeOf(call.out.resps[i].error) = -32001

\* C4: with a store attached, a request that resolved a session for a
\* non-public method passes the permission check exactly when the session
\* is authorized by exact name; otherwise it is answered with code -32000.
C4_ExactPermissionDecides ==
    \A i \in Slots :
        (/\ sm
         /\ Addressed(i)
         /\ ~GetKey(methods, call.members[i].req.method).public
         /\ Resolved(i))
        => IF Authorized(i)
           THEN call.members[i].thrown # ThrowTemplate("permission")
           ELSE /\ ~call.members[i].invoked
                /\ Answered => CodeOf(call.out.resps[i].error) = -32000

\* Member i failed: its envelope was refused, the dispatcher refused the
\* request, or its callback threw.
Failed(i) == call.members[i].thrown.k # "return"

C6_BatchAnswersInOrder ==
    call.phase = "done" =>
        IF call.kind = "batch"
        THEN /\ call.out.kind = "array"
             /\ Len(call.out.resps) = call.n
             /\ \A i \in Slots :
                    LET r == call.members[i].req IN
                    (r.t = "object" /\ r.id # NoId) => call.out.resps[i].id = r.id
        ELSE call.out.kind = "object"

\* C7: a batch never fails as a whole: it is answered with an array in
\* which every member that failed has its error in its own slot and every
\* member whose callback returned has its result.
C7_BatchMembersIndependent ==
    (call.phase = "done" /\ call.kind = "batch") =>
        /\ call.out.kind = "array"
        /\ Len(call.out.resps) = call.n
        /\ \A i \in Slots :
            IF Failed(i)
            THEN call.out.resps[i].error # NullError
            ELSE call.out.resps[i].result = call.members[i].thrown.v

\* C8: a request that passed the envelope, session and permission checks
\* reaches its callback exactly when the validator accepts its parameters
\* against an alternative; otherwise it is answered with code -32602 and
\* the diagnostic of the last alternative tried.
C8_ParamsDecideInvocation ==
    \A i \in Slots :
        (/\ Addressed(i)
         /\ call.members[i].thrown \notin
                {ThrowTemplate("invalidToken"), ThrowTemplate("permission")})
        => LET schema == GetKey(methods, call.members[i].req.method).parameterSchema
               last == checkParameters(call.members[i].req.params,
                                       schema[Len(schema)], "/")
           IN
           /\ call.members[i].invoked <=> Accepted(i)
           /\ (Answered /\ ~Accepted(i)) =>
                /\ CodeOf(call.out.resps[i].error) = -32602
                /\ ReasonOf(call.out.resps[i].error) = last.reason

\* C9: a callback that throws a string is answered with code -32002 and
\* that string as message; one that throws an Error is answered with code
\* -32003 and the Error's message, or with code -32000 when the message is
\* "Access denied".
C9_ThrownStringAndError ==
    Answered =>
        \A i \in Slots :
            LET o == call.members[i].thrown
                e == call.out.resps[i].error
            IN
            call.members[i].invoked =>
                /\ o.k = "string" =>
                        CodeOf(e) = -32002 /\ MessageOf(e) = o.s
                /\ (o.k = "Error" /\ o.message # "Access denied") =>
                        CodeOf(e) = -32003 /\ MessageOf(e) = o.message
                /\ (o.k = "Error" /\ o.message = "Access denied") =>
                        CodeOf(e) = -32000

\* C10: a callback that throws an object without a code field of its own
\* is answered with code -32004 and exactly the fields of that object,
\* whatever was answered before.
C10_CustomThrowPassthrough ==
    Answered =>
        \A i \in Slots :
            LET o == call.members[i].thrown
                e == call.out.resps[i].error
            IN
            (call.members[i].invoked /\ o.k = "object" /\ "code" \notin DOMAIN o.fields)
            => /\ CodeOf(e) = -32004
               /\ DOMAIN e \subseteq DOMAIN o.fields \cup {"code", "message"}
               /\ \A f \in DOMAIN o.fields : f \in DOMAIN e /\ e[f] = o.fields[f]

(***************************************************************************)
(* SpecStore: the life of sessions.  Single requests create, use and       *)
(* destroy sessions while the clock advances and the idle sweep runs; the  *)
(* transport may hand over text that is not JSON.                          *)
(***************************************************************************)
\* opts.timeout of the SessionManager, in seconds.
Timeout == 2
\* Latest value of the clock.
MaxTime == 3

\* The answer to unparseable text built from the Invalid Request object.
parseFailureAsInvalid(er) == [id |-> NullId, result |-> VNull, error |-> er.invalid]

\* Rpc.handle when JSON.parse throws: the serialized answer.
parseFailure(er) == [id |-> NullId, result |-> VNull, error |-> er.parse]

\* Rpc.handle(request) with a string that is not JSON.
handleText ==
    /\ call.phase = "idle"
    /\ call' = [IdleCall EXCEPT
                    !.phase = "done", !.kind = "text",
                    !.out = [kind |-> "object", resps |-> <<parseFailure(errors)>>]]
    /\ obs' = NoObs
    /\ UNCHANGED <<sm, enable, methods, errors, store, nextId, now, hooks>>

\* A second passes.
Tick ==
    /\ call.phase = "idle"
    /\ now < MaxTime
    /\ now' = now + 1
    /\ UNCHANGED <<sm, enable, methods, errors, store, nextId, hooks, call, obs>>

\* _gc without its last statement: the timeout that fired is not replaced.
gcWithoutReschedule(st, time) ==
    Canon([st EXCEPT !.sessions = SelectSeq(@, LAMBDA x : time - x.used < Timeout),
                     !.gcTimer = NoTimer])

\* SessionManager._gc with a timeout configured: the sessions kept, and
\* the next sweep scheduled.
gc(st, time) ==
    Canon([st EXCEPT !.sessions = SelectSeq(@, LAMBDA x : time - x.used < Timeout),
                     !.gcTimer = 3 - @])

\* The timer fires: one idle sweep.
Gc ==
    /\ call.phase = "idle"
    /\ sm
    /\ store.gcTimer # NoTimer
    /\ store' = gc(store, now)
    /\ obs' = [op |-> "gc"]
    /\ UNCHANGED <<sm, enable, methods, errors, nextId, now, hooks, call>>

\* The requests of SpecStore.
RequestsStore(i) ==
    {Request("2.0", i, m, VNull, tk) : m \in {"ping", "session/destroy"}, tk \in Tokens}
    \cup {Request("2.0", i, "session/create", VNull, NoToken),
          Request("2.0", i, "missing", VNull, NoToken)}

NextStore ==
    \/ Start("single", 1, NoConn)
    \/ \E r \in RequestsStore(Len(call.members) + 1) : Dispatch(r)
    \/ Classify
    \/ \E o \in Outcomes(1, AppReturns) : Complete(1, o)
    \/ Finish
    \/ Deliver
    \/ handleText
    \/ Tick
    \/ Gc

SpecStore == Init /\ [][NextStore]_vars

\* C11: text that is not JSON is answered with exactly one top-level
\* response with id null, result null and error code -32700; no member is
\* processed, no callback runs, and the session store is left as it was.
C11_MalformedTextIsParseError ==
    [][(call.phase = "idle" /\ call'.kind = "text") =>
            /\ call'.phase = "done"
            /\ call'.out.kind = "object"
            /\ Len(call'.out.resps) = 1
            /\ call'.out.resps[1].id = NullId
            /\ call'.out.resps[1].result = VNull
            /\ CodeOf(call'.out.resps[1].error) = -32700
            /\ call'.members = <<>>
            /\ store' = store /\ nextId' = nextId /\ hooks' = hooks]_vars

\* Unparseable text has been answered while a session exists that was last
\* used before the current second and an earlier answer was an error.
C11_Witness ==
    /\ call.phase = "done"
    /\ call.kind = "text"
    /\ \E j \in 1..Len(store.sessions) : store.sessions[j].used < now
    /\ errors.returnCustom # InitialErrors.returnCustom

\* C12: an envelope that is not an object with version "2.0", a string
\* method and an id is answered with code -32600 without reaching a
\* callback or the session store, and the response carries the request's
\* id when the request has one, null otherwise.
C12_InvalidEnvelopeEchoesId ==
    Answered =>
        \A i \in Slots :
            LET r == call.members[i].req IN
            ~ValidEnvelope(r) =>
                /\ ~call.members[i].invoked
                /\ CodeOf(call.out.resps[i].error) = -32600
                /\ call.out.resps[i].id =
                        IF r.t = "object" /\ r.id # NoId THEN r.id ELSE NullId

(***************************************************************************)
(* SpecPermissions: sessions and what they may call.  Single requests      *)
(* create sessions and call a private method; the application adds and     *)
(* removes permissions and registers and deletes methods; the HTTP         *)
(* transport passes the token of its header as third argument of handle(). *)
(***************************************************************************)
\* Rpc.handle(request, connection, token) as the HTTP transport calls it.
StartWithToken(kind, n, connection, token) ==
    /\ call.phase = "idle"
    /\ call' = [IdleCall EXCEPT !.phase = "loop", !.kind = kind, !.n = n,
                                !.conn = connection, !.token = token]
    /\ obs' = NoObs
    /\ UNCHANGED <<sm, enable, methods, errors, store, nextId, now, hooks>>

\* Rpc.deleteMethod(name): the registry and store it leaves and what it
\* returns.
deleteMethod(rpc, name) ==
    IF HasKey(rpc.methods, name)
    THEN [result |-> TRUE, methods |-> DelKey(rpc.methods, name), store |-> rpc.store]
    ELSE [result |-> FALSE, methods |-> rpc.methods,
          store |-> IF rpc.sm
                    THEN setPublicMethods(rpc.store, listPublicMethods(rpc.methods))
                    ELSE rpc.store]

\* The application calls rpc.addMethod(name, callback, schema, schema, isPublic).
AddMethod(name, isPublic) ==
    /\ call.phase = "idle"
    /\ LET rpc == addMethod([sm |-> sm, methods |-> methods, store |-> store],
                            name, "app", <<TypeNode("string")>>, isPublic)
       IN /\ methods' = rpc.methods
          /\ store' = rpc.store
    /\ obs' = [op |-> "addMethod"]
    /\ UNCHANGED <<sm, enable, errors, nextId, now, hooks, call>>

\* The application calls rpc.deleteMethod(name).
DeleteMethod(name) ==
    /\ call.phase = "idle"
    /\ LET d == deleteMethod([sm |-> sm, methods |-> methods, store |-> store], name)
       IN /\ methods' = d.methods
          /\ store' = d.store
          /\ obs' = [op |-> "deleteMethod", result |-> d.result]
    /\ UNCHANGED <<sm, enable, errors, nextId, now, hooks, call>>

\* The requests of SpecPermissions.
RequestsPermissions(i) ==
    {Request("2.0", i, "adm", VStr("hi"), tk) : tk \in Tokens}
    \cup {Request("2.0", i, "session/create", VNull, NoToken)}

NextPermissions ==
    \/ Start("single", 1, NoConn)
    \/ \E tk \in 1..MaxSessions : StartWithToken("single", 1, NoConn, tk)
    \/ \E r \in RequestsPermissions(Len(call.members) + 1) : Dispatch(r)
    \/ Classify
    \/ \E o \in Outcomes(1, AppReturns) : Complete(1, o)
    \/ Finish
    \/ Deliver
    \/ \E i \in 1..MaxSessions : AddPermission(i, "adm")
    \/ \E i \in 1..MaxSessions : RemovePermission(i, "adm")
    \/ AddMethod("extra", TRUE)
    \/ DeleteMethod("extra")

SpecPermissions == Init /\ [][NextPermissions]_vars

\* C13: a valid token passed as third argument of handle() authorizes a
\* private method as the same token in the envelope does: a request
\* without envelope token whose transport token names a session holding
\* the method's permission reaches the callback.
C13_TransportTokenAuthorizes ==
    \A i \in Slots :
        (/\ Addressed(i)
         /\ ~GetKey(methods, call.members[i].req.method).public
         /\ call.members[i].req.token = NoToken
         /\ Accepted(i)
         /\ \E j \in 1..Len(store.sessions) :
                /\ store.sessions[j].id = call.token
                /\ \E k \in 1..Len(store.heap[store.sessions[j].perms]) :
                        store.heap[store.sessions[j].perms][k] = call.members[i].req.method)
        => call.members[i].invoked

\* The sessions of a store as a caller sees them: permission arrays by
\* content.
SessionsOf(st) ==
    [j \in 1..Len(st.sessions) |->
        [id |-> st.sessions[j].id, used |-> st.sessions[j].used,
         user |-> st.sessions[j].user, subs |-> st.sessions[j].subs,
         conns |-> st.sessions[j].conns,
         perms |-> st.heap[st.sessions[j].perms]]]

\* The step dispatches a request whose callback is a session destroy.
DestroyStep ==
    /\ call.phase = "loop"
    /\ Len(call'.members) = Len(call.members) + 1
    /\ call'.members[Len(call'.members)].invoked
    /\ call'.members[Len(call'.members)].req.method
            \in {"session/destroy", "session/management/destroy"}

\* The identifier a destroy request names: its own token, or its parameter.
DestroyTarget(r) ==
    IF r.method = "session/destroy" THEN {r.token}
    ELSE {id \in 1..MaxSessions : r.params = VStr(ToString(id))}

\* C14: a destroy removes exactly the session it names and returns true iff
\* one was removed, leaving every other session unchanged; afterwards every
\* request to a registered method that carries the token of a destroyed
\* session never reaches a callback and is answered with code -32001.
C14_DestroyRemovesExactlyOne ==
    /\ [][DestroyStep =>
            LET m == call'.members[Len(call'.members)]
                gone == DestroyTarget(m.req)
                before == SessionsOf(store)
            IN /\ \A j \in 1..Len(before) :
                    (before[j].id \notin gone /\ before[j].id # m.req.token)
                    => \E k \in 1..Len(store'.sessions) : SessionsOf(store')[k] = before[j]
               /\ \A k \in 1..Len(store'.sessions) : store'.sessions[k].id \notin gone
               /\ Len(store'.sessions) =
                    Cardinality({j \in 1..Len(before) : before[j].id \notin gone})
               /\ m.thrown = Return(VBool(\E j \in 1..Len(before) : before[j].id \in gone))
       ]_vars
    /\ [](\A i \in Slots :
            (/\ Addressed(i)
             /\ call.members[i].req.token \in
                    call.members[i].pre.issued \ call.members[i].pre.ids)
            => /\ ~call.members[i].invoked
               /\ Answered => CodeOf(call.out.resps[i].error) = -32001)

\* C15: the idle sweep never removes a session whose idle time does not
\* exceed the timeout: every session with now - lastUsedAt <= timeout when
\* a sweep runs is still in the store after it.
C15_SweepKeepsFreshSessions ==
    [][Gc =>
        \A j \in 1..Len(store.sessions) :
            (now - store.sessions[j].used <= Timeout)
            => \E k \in 1..Len(store'.sessions) :
                    SessionsOf(store')[k] = SessionsOf(store)[j]]_vars

\* C16: after a sweep, getSession no longer returns a session that was
\* untouched for longer than the timeout, and still returns every session
\* that was touched within the timeout.
C16_SweepRemovesOnlyStaleSessions ==
    [][Gc =>
        \A j \in 1..Len(store.sessions) :
            LET id == store.sessions[j].id IN
            IF now - store.sessions[j].used > Timeout
            THEN getSession(store', id) = 0
            ELSE /\ getSession(store', id) # 0
                 /\ store'.sessions[getSession(store', id)].used
                        = store.sessions[j].used]_vars

\* The permission list of the session with identifier id (<<>> when the
\* store holds no such session).
PermissionsOf(st, id) ==
    IF getSession(st, id) = 0 THEN <<>>
    ELSE st.heap[st.sessions[getSession(st, id)].perms]

\* The step changes the permission list of the stored session id.
PermissionsChange(id) ==
    /\ getSession(store, id) # 0
    /\ getSession(store', id) # 0
    /\ PermissionsOf(store', id) # PermissionsOf(store, id)

\* C17: a session's permission list changes only in an addPermission or
\* removePermission call on that session, and addPermission on one session
\* leaves the list of every other session unchanged.
C17_PermissionsChangeOnlyByOwnCalls ==
    [][/\ \A id \in 1..MaxSessions :
            PermissionsChange(id)
            => \/ AddPermission(getSession(store, id), "adm")
               \/ RemovePermission(getSession(store, id), "adm")
       /\ \A i \in 1..Len(store.sessions) :
            AddPermission(i, "adm")
            => \A j \in 1..Len(store.sessions) :
                    j # i => ~PermissionsChange(store.sessions[j].id)
      ]_vars

\* The step stores a new session.
CreateStep == Len(store'.sessions) = Len(store.sessions) + 1

\* C18: a created session starts with an array of its own holding the
\* default list of that moment, with no principal and no subscriptions, and
\* registering or deleting a method afterwards changes no stored session's
\* list.
C18_NewSessionOwnsCopyOfDefaults ==
    [][/\ CreateStep =>
            LET new == store'.sessions[Len(store'.sessions)] IN
            /\ store'.heap[new.perms] = store.heap[store.publicMethods]
            /\ new.user = NoUser
            /\ new.subs = <<>>
            /\ new.perms # store'.publicMethods
            /\ \A j \in 1..Len(store.sessions) : store'.sessions[j].perms # new.perms
       /\ (methods' # methods) => \A id \in 1..MaxSessions : ~PermissionsChange(id)
      ]_vars

\* No permission list of a stored session holds a name twice.
NoDuplicatePermissions ==
    \A j \in 1..Len(store.sessions) :
        LET list == store.heap[store.sessions[j].perms] IN
        \A a, b \in 1..Len(list) : list[a] = list[b] => a = b

\* C19: addPermission and removePermission are idempotent set operations:
\* each returns true exactly when it changed the session's list, after
\* addPermission the name is in the list and after removePermission it is
\* not, a call that finds the list already so returns false and leaves the
\* list as it was, and no list ever holds a name twice.
C19_PermissionCallsAreIdempotent ==
    /\ []NoDuplicatePermissions
    /\ [][\A i \in 1..Len(store.sessions) :
            LET id == store.sessions[i].id
                before == PermissionsOf(store, id)
                after == PermissionsOf(store', id)
                held == \E k \in 1..Len(before) : before[k] = "adm"
            IN /\ AddPermission(i, "adm") =>
                    /\ obs'.result = (after # before)
                    /\ \E k \in 1..Len(after) : after[k] = "adm"
                    /\ held => (obs'.result = FALSE /\ after = before)
               /\ RemovePermission(i, "adm") =>
                    /\ obs'.result = (after # before)
                    /\ \A k \in 1..Len(after) : after[k] # "adm"
                    /\ ~held => (obs'.result = FALSE /\ after = before)
         ]_vars

\* An addPermission call has found the name in the list of a session and
\* returned false.
C19_Witness ==
    /\ obs = [op |-> "addPermission", result |-> FALSE]
    /\ \E j \in 1..Len(store.sessions) :
            \E k \in 1..Len(store.heap[store.sessions[j].perms]) :
                store.heap[store.sessions[j].perms][k] = "adm"

(***************************************************************************)
(* SpecPush: sessions, their connections and push messages.  Requests over *)
(* two connections create sessions and bind connections to them; the       *)
(* application grants the topic, subscribes and unsubscribes connections,  *)
(* pushes on a session; connections close; a send may fail.                *)
(***************************************************************************)
Conns == {"cA", "cB"}

\* Session.subscribe(subject, identifier) on session sess with permission
\* array perms: what it throws or returns and the subscriptions it leaves.
subscribe(sess, perms, subject, identifier) ==
    IF ~checkPermission(perms, sess.user, subject)
    THEN [threw |-> "Access denied", result |-> FALSE, subs |-> sess.subs]
    ELSE IF HasKey(sess.subs, identifier)
    THEN LET list == GetKey(sess.subs, identifier)
             includes == \E k \in 1..Len(list) : list[k] = subject
         IN [threw |-> "", result |-> ~includes,
             subs |-> IF includes THEN sess.subs
                      ELSE PutKey(sess.subs, identifier, Append(list, subject))]
    ELSE [threw |-> "Unknown connection", result |-> FALSE, subs |-> sess.subs]

\* Session.unsubscribe(subject, identifier).
unsubscribe(sess, subject, identifier) ==
    IF HasKey(sess.subs, identifier)
    THEN LET list == GetKey(sess.subs, identifier)
             includes == \E k \in 1..Len(list) : list[k] = subject
         IN [threw |-> "", result |-> includes,
             subs |-> IF includes
                      THEN PutKey(sess.subs, identifier,
                                  SelectSeq(list, LAMBDA item : item # subject))
                      ELSE sess.subs]
    ELSE [threw |-> "Unknown connection", result |-> FALSE, subs |-> sess.subs]

\* _onConnectionClose without the delete of the subscription set.
onConnectionCloseKeepsSubscriptions(sess, connection) ==
    [sess EXCEPT !.conns = @ \ {connection}]

\* Session._onConnectionClose(connection).
onConnectionClose(sess, connection) ==
    [sess EXCEPT !.conns = @ \ {connection}, !.subs = DelKey(@, connection)]

\* The push envelope before JSON.stringify.
pushEnvelope(subject, message) ==
    [pushMessage |-> TRUE, subject |-> subject, message |-> message]

\* The loop of Session.push over the subscriptions from position index on:
\* the connections whose send() it called, in order, and whether the last
\* of these sends failed, which ends the loop and rejects the promise of
\* push.
RECURSIVE pushLoop(_, _, _, _)
pushLoop(subs, subject, failing, index) ==
    IF index > Len(subs) THEN [sent |-> <<>>, rejected |-> FALSE]
    ELSE LET identifier == subs[index][1]
             list == subs[index][2]
         IN IF \E k \in 1..Len(list) : list[k] = subject
            THEN IF identifier \in failing
                 THEN [sent |-> <<identifier>>, rejected |-> TRUE]
                 ELSE LET rest == pushLoop(subs, subject, failing, index + 1)
                      IN [sent |-> <<identifier>> \o rest.sent,
                          rejected |-> rest.rejected]
            ELSE pushLoop(subs, subject, failing, index + 1)

\* The application calls session.subscribe(subject, connection.smIdentifier)
\* on session i.
Subscribe(i, connection, subject) ==
    /\ call.phase = "idle"
    /\ i \in 1..Len(store.sessions)
    /\ LET r == subscribe(store.sessions[i], store.heap[store.sessions[i].perms],
                          subject, connection)
       IN /\ store' = [store EXCEPT !.sessions[i].subs = r.subs]
          /\ obs' = [op |-> "subscribe", threw |-> r.threw, result |-> r.result]
    /\ UNCHANGED <<sm, enable, methods, errors, nextId, now, hooks, call>>

\* The application calls session.unsubscribe(subject, connection.smIdentifier)
\* on session i.
Unsubscribe(i, connection, subject) ==
    /\ call.phase = "idle"
    /\ i \in 1..Len(store.sessions)
    /\ LET r == unsubscribe(store.sessions[i], subject, connection)
       IN /\ store' = [store EXCEPT !.sessions[i].subs = r.subs]
          /\ obs' = [op |-> "unsubscribe", threw |-> r.threw, result |-> r.result]
    /\ UNCHANGED <<sm, enable, methods, errors, nextId, now, hooks, call>>

\* The connection emits "close": every listener installed on it runs.  The
\* closed connection object is not used again.
Close(connection) ==
    /\ call.phase = "idle"
    /\ \E p \in DOMAIN hooks : p[1] = connection
    /\ store' = [store EXCEPT !.sessions =
                    [j \in 1..Len(@) |->
                        IF <<connection, @[j].id>> \in DOMAIN hooks
                        THEN onConnectionClose(@[j], connection)
                        ELSE @[j]]]
    /\ hooks' = [p \in {q \in DOMAIN hooks : q[1] # connection} |-> hooks[p]]
    /\ obs' = [op |-> "close", connection |-> connection,
               sessions |-> {p[2] : p \in {q \in DOMAIN hooks : q[1] = connection}}]
    /\ UNCHANGED <<sm, enable, methods, errors, nextId, now, call>>

\* The application calls session.push(subject, message) on session i and
\* awaits it; send() fails on the connections in failing.
Push(i, subject, message, failing) ==
    /\ call.phase = "idle"
    /\ i \in 1..Len(store.sessions)
    /\ LET r == pushLoop(store.sessions[i].subs, subject, failing, 1)
       IN obs' = [op |-> "push", session |-> store.sessions[i].id,
                  envelope |-> pushEnvelope(subject, message),
                  sent |-> r.sent, rejected |-> r.rejected,
                  result |-> ~r.rejected /\ Len(r.sent) > 0,
                  failing |-> failing]
    /\ UNCHANGED <<sm, enable, methods, errors, store, nextId, now, hooks, call>>

\* The application calls sessionManager.push(subject, message): push of
\* every stored session is started in turn and none is awaited, so each
\* runs its own loop; send() fails on the connections in failing.
Broadcast(subject, message, failing) ==
    /\ call.phase = "idle"
    /\ Len(store.sessions) > 0
    /\ obs' = [op |-> "broadcast",
               envelope |-> pushEnvelope(subject, message),
               pushes |-> [j \in 1..Len(store.sessions) |->
                            pushLoop(store.sessions[j].subs, subject, failing, 1)],
               failing |-> failing]
    /\ UNCHANGED <<sm, enable, methods, errors, store, nextId, now, hooks, call>>

\* The requests of SpecPush.
RequestsPush(i) ==
    {Request("2.0", i, "ping", VNull, tk) : tk \in 1..MaxSessions}
    \cup {Request("2.0", i, "session/create", VNull, NoToken)}

NextPush ==
    \/ \E c \in Conns : Start("single", 1, c)
    \/ \E r \in RequestsPush(Len(call.members) + 1) : Dispatch(r)
    \/ Classify
    \/ \E o \in Outcomes(1, AppReturns) : Complete(1, o)
    \/ Finish
    \/ Deliver
    \/ \E i \in 1..MaxSessions : AddPermission(i, "news")
    \/ \E i \in 1..MaxSessions : RemovePermission(i, "news")
    \/ \E i \in 1..MaxSessions : \E c \in Conns : Subscribe(i, c, "news")
    \/ \E i \in 1..MaxSessions : \E c \in Conns : Unsubscribe(i, c, "news")
    \/ \E c \in Conns : Close(c)
    \/ \E i \in 1..MaxSessions : \E failing \in SUBSET Conns :
            Push(i, "news", VStr("m"), failing)
    \/ \E failing \in SUBSET Conns : Broadcast("news", VStr("m"), failing)

SpecPush == Init /\ [][NextPush]_vars

\* The number of positions of sequence q that hold e.
Count(q, e) == Cardinality({k \in 1..Len(q) : q[k] = e})

\* Connection c belongs to the session with identifier id and its
\* subscription set there contains subject.
Subscribed(id, c, subject) ==
    \E j \in 1..Len(store.sessions) :
        /\ store.sessions[j].id = id
        /\ c \in store.sessions[j].conns
        /\ HasKey(store.sessions[j].subs, c)
        /\ \E k \in 1..Len(GetKey(store.sessions[j].subs, c)) :
                GetKey(store.sessions[j].subs, c)[k] = subject

\* C20: a push on a session calls send() with the envelope exactly once on
\* every connection of that session subscribed to the topic and on no
\* other connection.
C20_PushReachesExactlySubscribers ==
    (obs.op = "push") =>
        \A c \in Conns :
            Count(obs.sent, c)
                = IF Subscribed(obs.session, c, obs.envelope.subject) THEN 1 ELSE 0

\* Connection c of session j is subscribed to subject and its send() works.
Healthy(j, c, subject, failing) ==
    /\ c \notin failing
    /\ Subscribed(store.sessions[j].id, c, subject)

\* C21: push delivery is independent per connection: a push on a session
\* and a store-wide broadcast both call send() on every subscribed
\* connection whose send() works, whichever other sends fail.
C21_PushSurvivesFailingSend ==
    /\ (obs.op = "push") =>
            \A j \in 1..Len(store.sessions) : \A c \in Conns :
                (store.sessions[j].id = obs.session
                 /\ Healthy(j, c, obs.envelope.subject, obs.failing))
                => Count(obs.sent, c) = 1
    /\ (obs.op = "broadcast") =>
            \A j \in 1..Len(store.sessions) : \A c \in Conns :
                Healthy(j, c, obs.envelope.subject, obs.failing)
                => Count(obs.pushes[j].sent, c) = 1

\* Session i passes the authorization predicate for subject.
MaySubscribe(i, subject) ==
    checkPermission(store.heap[store.sessions[i].perms], store.sessions[i].user, subject)

\* C22: subscribe and unsubscribe are both gated by the session's
\* authorization predicate: a call for a topic the session is not
\* authorized for throws "Access denied" and leaves every subscription set
\* of the session as it was.
C22_SubscriptionCallsAreGated ==
    [][\A i \in 1..Len(store.sessions) : \A c \in Conns :
        (/\ Subscribe(i, c, "news") \/ Unsubscribe(i, c, "news")
         /\ ~MaySubscribe(i, "news"))
        => /\ obs'.threw = "Access denied"
           /\ store'.sessions[i].subs = store.sessions[i].subs
      ]_vars

(***************************************************************************)
(* SpecClose: sessions and the life of their connections.  Requests over   *)
(* two connections create sessions and resolve them by token; the          *)
(* application subscribes connections to a topic every session is granted  *)
(* from its creation (the name of a public method) and pushes; connections *)
(* close.                                                                  *)
(***************************************************************************)
NextClose ==
    \/ \E c \in Conns : Start("single", 1, c)
    \/ \E r \in RequestsPush(Len(call.members) + 1) : Dispatch(r)
    \/ Classify
    \/ \E o \in Outcomes(1, AppReturns) : Complete(1, o)
    \/ Finish
    \/ Deliver
    \/ \E i \in 1..MaxSessions : \E c \in Conns : Subscribe(i, c, "echo")
    \/ \E c \in Conns : Close(c)
    \/ \E i \in 1..MaxSessions : Push(i, "echo", VStr("m"), {})

SpecClose == Init /\ [][NextClose]_vars

\* C23: when a connection closes, every session loses its connection-table
\* entry and its subscription set for that connection and nothing else:
\* it is still resolved by its token, with the permissions, principal,
\* last-use time and the subscriptions of its other connections it had;
\* and a push only ever calls send() on a connection that is open and
\* bound to the session.
C23_CloseDropsOnlyTheConnection ==
    [][/\ (obs'.op = "close" /\ Close(obs'.connection)) =>
            /\ Len(store'.sessions) = Len(store.sessions)
            /\ \A j \in 1..Len(store.sessions) :
                LET b == SessionsOf(store)[j]
                    a == SessionsOf(store')[j]
                IN /\ getSession(store', b.id) = j
                   /\ a.perms = b.perms
                   /\ a.user = b.user
                   /\ a.used = b.used
                   /\ a.conns = b.conns \ {obs'.connection}
                   /\ ~HasKey(a.subs, obs'.connection)
                   /\ a.subs = SelectSeq(b.subs, LAMBDA p : p[1] # obs'.connection)
       /\ (obs'.op = "push") =>
            \A k \in 1..Len(obs'.sent) :
                /\ <<obs'.sent[k], obs'.session>> \in DOMAIN hooks'
                /\ \E j \in 1..Len(store'.sessions) :
                        /\ store'.sessions[j].id = obs'.session
                        /\ obs'.sent[k] \in store'.sessions[j].conns
      ]_vars

\* A connection that a session had subscribed has closed, and the session
\* still holds the subscription of its other connection.
C23_Witness ==
    /\ obs.op = "close"
    /\ \E j \in 1..Len(store.sessions) :
        /\ store.sessions[j].id \in obs.sessions
        /\ obs.connection \notin store.sessions[j].conns
        /\ \E c \in store.sessions[j].conns : Subscribed(store.sessions[j].id, c, "echo")

(***************************************************************************)
(* SpecBind: sessions resolved over time.  Requests with and without a     *)
(* connection create sessions, resolve them by token and call a private    *)
(* method while the clock advances; the application subscribes the         *)
(* connection to a topic.                                                  *)
(***************************************************************************)
\* The latest time of SpecBind.
MaxBindTime == 1

\* The requests of SpecBind.
RequestsBind(i) ==
    {Request("2.0", i, m, VNull, tk) : m \in {"ping", "adm"}, tk \in 1..MaxSessions}
    \cup {Request("2.0", i, "session/create", VNull, NoToken)}

NextBind ==
    \/ \E c \in {NoConn, "cA"} : Start("single", 1, c)
    \/ \E r \in RequestsBind(Len(call.members) + 1) : Dispatch(r)
    \/ Classify
    \/ \E o \in Outcomes(1, AppReturns) : Complete(1, o)
    \/ Finish
    \/ Deliver
    \/ now < MaxBindTime /\ Tick
    \/ \E i \in 1..MaxSessions : Subscribe(i, "cA", "echo")

SpecBind == Init /\ [][NextBind]_vars

\* The step is the dispatch of a request.
DispatchStep ==
    /\ call.phase = "loop"
    /\ Len(call'.members) = Len(call.members) + 1

\* C24: every request that resolves a session sets the session's last-use
\* time to the current time and binds the request's connection to it: a
\* connection not yet in the session's table gets an empty subscription
\* set and one close listener; for a connection already bound the table,
\* the subscription sets and the listeners stay as they are.
C24_ResolvingRefreshesAndBindsOnce ==
    [][DispatchStep =>
        LET r == call'.members[Len(call'.members)].req
            j == getSession(store, r.token)
            c == call.conn
        IN (HasKey(methods, r.method) /\ r.token # NoToken /\ j # 0) =>
            LET b == store.sessions[j]
                a == store'.sessions[j]
            IN /\ a.id = b.id
               /\ a.used = now
               /\ IF c = NoConn
                  THEN a.conns = b.conns /\ a.subs = b.subs /\ hooks' = hooks
                  ELSE /\ c \in a.conns
                       /\ HasKey(a.subs, c)
                       /\ <<c, b.id>> \in DOMAIN hooks'
                       /\ hooks'[<<c, b.id>>] = 1
                       /\ IF c \in b.conns
                          THEN a.conns = b.conns /\ a.subs = b.subs /\ hooks' = hooks
                          ELSE /\ a.conns = b.conns \cup {c}
                               /\ a.subs = Append(b.subs, <<c, <<>>>>)
      ]_vars

\* A request in flight has resolved a session, later than the session was
\* created, over a connection that was already bound and subscribed.
C24_Witness ==
    /\ call.phase = "wait"
    /\ call.conn = "cA"
    /\ \E i \in 1..Len(call.members) : \E j \in 1..Len(store.sessions) :
        /\ call.members[i].req.token = store.sessions[j].id
        /\ call.members[i].req.method = "adm"
        /\ store.sessions[j].used = now
        /\ store.sessions[j].created < now
        /\ Subscribed(store.sessions[j].id, "cA", "echo")
        /\ hooks[<<"cA", store.sessions[j].id>>] = 1

(***************************************************************************)
(* SpecBuiltins: the methods the constructor registers.  Dispatchers with  *)
(* and without a session store answer ping and usage requests with and     *)
(* without token and parameters; the application registers and deletes a   *)
(* method of its own.                                                      *)
(***************************************************************************)
RequestsBuiltins(i) ==
    {Request("2.0", i, m, pr, tk) :
        m \in {"ping", "usage"}, pr \in {VNull, VStr("x")}, tk \in {NoToken, UnknownToken}}

NextBuiltins ==
    \/ Start("single", 1, NoConn)
    \/ \E n \in 1..MaxBatch : Start("batch", n, NoConn)
    \/ \E r \in RequestsBuiltins(Len(call.members) + 1) : Dispatch(r)
    \/ Classify
    \/ \E i \in 1..MaxBatch : \E o \in Outcomes(i, AppReturns) : Complete(i, o)
    \/ Finish
    \/ Deliver
    \/ \E isPublic \in BOOLEAN : AddMethod("extra", isPublic)
    \/ DeleteMethod("extra")

SpecBuiltins == InitOutcomes /\ [][NextBuiltins]_vars

\* The keys of an object value, in order.
KeysOf(v) == [k \in 1..Len(v.o) |-> v.o[k][1]]

\* v describes the service: its identity and, for every registered method
\* in registry order, exactly the parameter schema, the result schema and
\* the public flag of the registry.
DescribesService(v) ==
    /\ v.t = "object"
    /\ KeysOf(v) = <<"service", "methods">>
    /\ GetKey(v.o, "service") = VStr(Identity)
    /\ LET ms == GetKey(v.o, "methods") IN
        /\ ms.t = "object"
        /\ KeysOf(ms) = [k \in 1..Len(methods) |-> methods[k][1]]
        /\ \A k \in 1..Len(methods) :
            LET d == ms.o[k][2] IN
            /\ KeysOf(d) = <<"parameters", "result", "public">>
            /\ GetKey(d.o, "parameters") = methods[k][2].parameterSchema
            /\ GetKey(d.o, "result") = methods[k][2].resultSchema
            /\ GetKey(d.o, "public") = VBool(methods[k][2].public)

\* C25: a dispatcher constructed with the default flags has ping and usage
\* registered as public methods; a well-formed request for either without
\* token and without parameters reaches the callback; ping answers "pong"
\* and usage answers the description of the service, which holds no
\* callback.
C25_PingAndUsageArePublic ==
    /\ \A name \in {"ping", "usage"} :
            HasKey(methods, name) /\ GetKey(methods, name).public
    /\ \A i \in Slots :
        LET m == call.members[i] IN
        (/\ ValidEnvelope(m.req)
         /\ m.req.method \in {"ping", "usage"}
         /\ m.req.token = NoToken
         /\ m.req.params = VNull)
        => /\ m.invoked
           /\ m.thrown.k = "return"
           /\ IF m.req.method = "ping" THEN m.thrown.v = VStr("pong")
              ELSE DescribesService(m.thrown.v)
           /\ Answered =>
                /\ call.out.resps[i].result = m.thrown.v
                /\ call.out.resps[i].error = NullError

\* A usage request without token has been answered by a dispatcher with a
\* session store, with a private method of the application in the registry.
C25_Witness ==
    /\ Answered
    /\ sm
    /\ HasKey(methods, "extra")
    /\ ~GetKey(methods, "extra").public
    /\ \E i \in Slots :
        /\ call.members[i].req.method = "usage"
        /\ call.members[i].req.token = NoToken
        /\ call.members[i].invoked
        /\ DescribesService(call.out.resps[i].result)

(***************************************************************************)
(* The validator as a function of its two arguments, and what a call       *)
(* leaves of the constraint tree it was given.                             *)
(***************************************************************************)
\* A constraint object with field name set to val.
WithField(c, name, val) ==
    KNode([x \in DOMAIN c.f \cup {name} |-> IF x = name THEN val ELSE c.f[x]])

\* The key map with the value of its index-th entry replaced.
WithEntry(map, index, val) ==
    KMap([map.m EXCEPT ![index] = <<map.m[index][1], val>>])

RECURSIVE afterParameters(_, _)
RECURSIVE afterAlternatives(_, _, _)
RECURSIVE afterRequired(_, _, _, _)
RECURSIVE afterStray(_, _, _)

\* checkParameters over an array of constraints: every alternative that
\* was tried is left as its own check left it.
afterAlternatives(parameters, alts, index) ==
    IF index >= Len(alts) THEN alts
    ELSE LET r == checkParameters(parameters, alts[index + 1], "/")
             tried == [alts EXCEPT ![index + 1] = afterParameters(parameters, @)]
         IN IF r.threw \/ r.ok THEN tried
            ELSE afterAlternatives(parameters, tried, index + 1)

\* checkObject, the loop over the keys of the value: a nested check of an
\* optional key works on the constraint object stored under that key.
afterStray(pairs, c, index) ==
    IF index > Len(pairs) THEN c
    ELSE LET item == pairs[index][1] IN
         IF InRequired(RequiredOf(c), item)
         THEN afterStray(pairs, c, index + 1)
         ELSE IF Has(c, "optional") /\ HasKey(c.f.optional.m, item)
         THEN LET opt == GetKey(c.f.optional.m, item)
                  at == CHOOSE k \in 1..Len(c.f.optional.m) : c.f.optional.m[k][1] = item
              IN IF opt.k = "obj" /\ Has(opt, "type")
                 THEN LET r == checkParameters(pairs[index][2], opt, "/")
                          c1 == WithField(c, "optional",
                                    WithEntry(c.f.optional, at,
                                              afterParameters(pairs[index][2], opt)))
                      IN IF r.threw \/ ~r.ok THEN c1
                         ELSE afterStray(pairs, c1, index + 1)
                 ELSE afterStray(pairs, c, index + 1)
         ELSE c

\* checkObject, the loop over the required keys; aliased says that
\* constraints.required is the object constraints.contains.
afterRequired(parameters, c, aliased, index) ==
    LET req == RequiredOf(c)
        items == RequiredItems(req)
    IN
    IF index > Len(items)
    THEN afterStray(IF parameters.t = "null" THEN <<>> ELSE parameters.o, c, 1)
    ELSE IF parameters.t = "null" \/ ~HasKey(parameters.o, items[index]) THEN c
    ELSE IF req.k = "map" /\ req.m[index][2].k \in {"obj", "alts"}
    THEN LET val == GetKey(parameters.o, items[index])
             r == checkParameters(val, req.m[index][2], "/")
             nested == IF req.m[index][2].k = "alts"
                       THEN KAlts(afterAlternatives(val, req.m[index][2].l, 0))
                       ELSE afterParameters(val, req.m[index][2])
             c1 == WithField(c, "required", WithEntry(req, index, nested))
             c2 == IF aliased THEN WithField(c1, "contains", c1.f.required) ELSE c1
         IN IF r.threw \/ ~r.ok THEN c2
            ELSE afterRequired(parameters, c2, aliased, index + 1)
    ELSE afterRequired(parameters, c, aliased, index + 1)

\* The constraint object after checkParameters(parameters, constraints):
\* checkObject stores constraints.contains under constraints.required when
\* the object has no required keys of its own.
afterParameters(parameters, constraints) ==
    IF constraints.k # "obj" THEN constraints
    ELSE IF ~Has(constraints, "type") \/ constraints.f.type.k # "s" THEN constraints
    ELSE IF constraints.f.type.s # "object" THEN constraints
    ELSE IF IsArray(parameters) \/ TypeOf(parameters) # "object" THEN constraints
    ELSE LET aliased == /\ Has(constraints, "contains")
                        /\ constraints.f.contains.k \in {"map", "l"}
                        /\ ~Has(constraints, "required")
             c == IF aliased
                  THEN WithField(constraints, "required", constraints.f.contains)
                  ELSE constraints
         IN IF ~Has(c, "required") /\ ~Has(c, "optional") THEN c
            ELSE afterRequired(parameters, c, aliased, 1)

(***************************************************************************)
(* SpecValidator: the validator applied to values and constraint trees of  *)
(* every kind.                                                             *)
(***************************************************************************)
Values ==
    {VNull, VStr("x"), VNum(1), VBool(TRUE),
     VArr(<<>>), VArr(<<VStr("x")>>), VArr(<<VStr("x"), VNum(1)>>), VArr(<<VBool(TRUE)>>),
     VObj(<<>>),
     VObj(<< <<"a", VStr("x")>> >>),
     VObj(<< <<"a", VNum(1)>> >>),
     VObj(<< <<"b", VNum(1)>> >>),
     VObj(<< <<"a", VStr("x")>>, <<"b", VNum(1)>> >>),
     VObj(<< <<"a", VStr("x")>>, <<"b", VStr("y")>> >>),
     VObj(<< <<"a", VStr("x")>>, <<"c", VNum(1)>> >>),
     VObj(<< <<"a", VNum(1)>>, <<"b", VNum(1)>> >>),
     VObj(<< <<"a", VNull>> >>),
     VObj(<< <<"a", VObj(<< <<"b", VStr("x")>> >>)>> >>)}

SimpleTypes == {"none", "null", "any", "string", "number", "boolean", "array", "object"}

\* Array constraints: length bounds and the three forms of contains.
ArraySchemas ==
    {KNode([type |-> KS("array"), contains |-> KS("string")]),
     KNode([type |-> KS("array"), contains |-> KL(<<"string", "number">>)]),
     KNode([type |-> KS("array"), contains |-> TypeNode("string")]),
     KNode([type |-> KS("array"), length |-> 1]),
     KNode([type |-> KS("array"), minlength |-> 1, contains |-> KS("string")]),
     KNode([type |-> KS("array"), maxlength |-> 1, contains |-> KL(<<"string", "number">>)]),
     KNode([type |-> KS("array"), maxlength |-> 1, contains |-> TypeNode("string")])}

\* Object constraints with required and/or optional keys.
ObjectSchemas ==
    {KNode([type |-> KS("object"), required |-> KMap(<< <<"a", TypeNode("string")>> >>)]),
     KNode([type |-> KS("object"), required |-> KMap(<< <<"a", KNode(<<>>)>> >>)]),
     KNode([type |-> KS("object"), required |-> KL(<<"a">>)]),
     KNode([type |-> KS("object"), optional |-> KMap(<< <<"b", TypeNode("number")>> >>)]),
     KNode([type |-> KS("object"),
            required |-> KMap(<< <<"a", TypeNode("string")>> >>),
            optional |-> KMap(<< <<"b", TypeNode("number")>> >>)]),
     KNode([type |-> KS("object"),
            required |-> KMap(<< <<"a", KNode([type |-> KS("object"),
                                              optional |-> KMap(<< <<"b", TypeNode("string")>> >>)])>> >>)])}

Schemas ==
    {TypeNode(t) : t \in SimpleTypes}
    \cup {KNode([type |-> KL(<<"string", "number">>)])}
    \cup ArraySchemas
    \cup ObjectSchemas
    \cup {KNode([type |-> KS("object"), contains |-> KMap(<< <<"a", TypeNode("string")>> >>)]),
          KNode([type |-> KS("object"),
                 required |-> KMap(<< <<"a", KNode([type |-> KS("object"),
                        contains |-> KMap(<< <<"b", TypeNode("string")>> >>)])>> >>)]),
          KAlts(<<TypeNode("string"),
                  KNode([type |-> KS("object"),
                         contains |-> KMap(<< <<"a", TypeNode("string")>> >>)])>>),
          KAlts(<<TypeNode("number"),
                  KNode([type |-> KS("object"),
                         required |-> KMap(<< <<"a", TypeNode("string")>> >>),
                         optional |-> KMap(<< <<"b", TypeNode("number")>> >>)])>>)}

\* The application calls checkParameters(parameters, constraints).
Validate(parameters, constraints) ==
    /\ call.phase = "idle"
    /\ obs' = [op |-> "checkParameters",
               parameters |-> parameters,
               constraints |-> constraints,
               result |-> checkParameters(parameters, constraints, "/"),
               after |-> IF constraints.k = "alts"
                         THEN KAlts(afterAlternatives(parameters, constraints.l, 0))
                         ELSE afterParameters(parameters, constraints)]
    /\ UNCHANGED <<sm, enable, methods, errors, store, nextId, now, hooks, call>>

NextValidator == \E parameters \in Values : \E constraints \in Schemas :
                    Validate(parameters, constraints)

SpecValidator == Init /\ [][NextValidator]_vars

\* The validator has just been applied.
Validated == obs.op = "checkParameters"

\* The call returned the pair (false, diagnostic).
Rejected == ~obs.result.threw /\ ~obs.result.ok

\* C26: null is accepted only by a constraint of type none or null; a
\* constraint of any other type (any left aside) answers null with the
\* pair (false, diagnostic).
C26_NullOnlySatisfiesNone ==
    (/\ Validated
     /\ obs.parameters = VNull
     /\ obs.constraints.k = "obj"
     /\ Has(obs.constraints, "type")
     /\ obs.constraints.f.type.k = "s"
     /\ obs.constraints.f.type.s \notin {"none", "null", "any"})
    => Rejected

\* The key names an object constraint lists under field.
KeyNames(c, field) ==
    IF ~Has(c, field) THEN {}
    ELSE IF c.f[field].k = "map" THEN {c.f[field].m[i][1] : i \in 1..Len(c.f[field].m)}
    ELSE {c.f[field].l[i] : i \in 1..Len(c.f[field].l)}

\* The value satisfies the nested constraint listed for key under field,
\* when one is given.
SatisfiesNested(v, c, field, key) ==
    (c.f[field].k = "map") => checkParameters(v, GetKey(c.f[field].m, key), "/").ok

\* A non-null, non-array object with every required key, no stray key, and
\* every listed key satisfying its nested constraint.
ObjectAccepted(v, c) ==
    /\ v.t = "object"
    /\ \A key \in KeyNames(c, "required") :
          HasKey(v.o, key) /\ SatisfiesNested(GetKey(v.o, key), c, "required", key)
    /\ \A i \in 1..Len(v.o) :
          \/ v.o[i][1] \in KeyNames(c, "required")
          \/ /\ v.o[i][1] \in KeyNames(c, "optional")
             /\ SatisfiesNested(v.o[i][2], c, "optional", v.o[i][1])

\* C27: against an object constraint with required and/or optional keys a
\* value is accepted exactly when it is a non-null, non-array object that
\* has every required key, satisfies the nested constraints of its keys and
\* has no stray key; otherwise the pair (false, diagnostic) is returned.
C27_ObjectKeysDecideAcceptance ==
    (Validated /\ obs.constraints \in ObjectSchemas)
    => /\ ~obs.result.threw
       /\ obs.result.ok = ObjectAccepted(obs.parameters, obs.constraints)

\* The array meets the exact, minimum and maximum length of the constraint.
MeetsLengthBounds(v, c) ==
    /\ Has(c, "length") => Len(v.a) = c.f.length
    /\ Has(c, "minlength") => Len(v.a) >= c.f.minlength
    /\ Has(c, "maxlength") => Len(v.a) <= c.f.maxlength

\* The element satisfies the element constraint in any of its three forms.
ElementSatisfies(e, contains) ==
    IF contains.k = "s" THEN checkParameters(e, TypeNode(contains.s), "/").ok
    ELSE IF contains.k = "l"
    THEN \E i \in 1..Len(contains.l) : checkParameters(e, TypeNode(contains.l[i]), "/").ok
    ELSE checkParameters(e, contains, "/").ok

\* C28: whichever form the element constraint of an array constraint has,
\* an array within the length bounds is accepted exactly when each of its
\* elements satisfies the element constraint, and is otherwise rejected
\* with a diagnostic.
C28_ArrayElementsDecideAcceptance ==
    (/\ Validated
     /\ obs.constraints \in ArraySchemas
     /\ Has(obs.constraints, "contains")
     /\ IsArray(obs.parameters)
     /\ MeetsLengthBounds(obs.parameters, obs.constraints))
    => /\ ~obs.result.threw
       /\ obs.result.ok = \A i \in 1..Len(obs.parameters.a) :
                             ElementSatisfies(obs.parameters.a[i], obs.constraints.f.contains)

\* C29: string, number and boolean each accept exactly the values of that
\* type; an object constraint rejects every array and an array constraint
\* rejects every non-array object.
C29_SimpleTypesAreExclusive ==
    (/\ Validated
     /\ obs.constraints.k = "obj"
     /\ Has(obs.constraints, "type")
     /\ obs.constraints.f.type.k = "s")
    => LET type == obs.constraints.f.type.s IN
       /\ type \in {"string", "number", "boolean"}
            => ~obs.result.threw /\ obs.result.ok = (obs.parameters.t = type)
       /\ (type = "object" /\ obs.parameters.t = "array") => Rejected
       /\ (type = "array" /\ obs.parameters.t = "object") => Rejected

\* A boolean was checked against number and rejected, an array against an
\* object constraint with keys likewise.
C29_Witness ==
    /\ Validated
    /\ Rejected
    /\ \/ obs.constraints = TypeNode("number") /\ obs.parameters = VBool(TRUE)
       \/ obs.constraints \in ObjectSchemas /\ obs.parameters = VArr(<<VStr("x")>>)

\* C30: a call of the validator leaves the constraint tree it was given as
\* it was, so the schema a method was registered with is the schema that
\* stays registered.
C30_ValidatorLeavesSchemaAlone ==
    Validated => obs.after = obs.constraints

\* The first key at which an object value fails an object constraint: a
\* required key, in the order of the constraint, that is missing or whose
\* value fails its nested constraint, else a key of the value, in the order
\* of the value, that is stray or fails its optional constraint.
FailingKeys(v, c) ==
    LET req == IF Has(c, "required") /\ c.f.required.k = "map"
               THEN SelectSeq([i \in 1..Len(c.f.required.m) |-> c.f.required.m[i][1]],
                              LAMBDA key :
                                 \/ ~HasKey(v.o, key)
                                 \/ ~SatisfiesNested(GetKey(v.o, key), c, "required", key))
               ELSE <<>>
        opt == SelectSeq([i \in 1..Len(v.o) |-> v.o[i][1]],
                         LAMBDA key :
                            /\ key \notin KeyNames(c, "required")
                            /\ \/ key \notin KeyNames(c, "optional")
                               \/ ~SatisfiesNested(GetKey(v.o, key), c, "optional", key))
    IN req \o opt

\* The node of the value at which validation fails, as the markers that lead
\* to it from the root: the key of an object member, the index of an array
\* element, and for a list of alternatives the node within each alternative.
RECURSIVE ViolatingNode(_, _)
ViolatingNode(v, c) ==
    IF c.k = "alts"
    THEN LET RECURSIVE Each(_)
             Each(i) == IF i > Len(c.l) THEN <<>>
                        ELSE <<"{" \o ToString(i - 1) \o "}">>
                             \o ViolatingNode(v, c.l[i]) \o Each(i + 1)
         IN Each(1)
    ELSE IF c.k # "obj" \/ ~Has(c, "type") \/ c.f.type.k # "s" THEN <<>>
    ELSE IF /\ c.f.type.s = "array" /\ IsArray(v) /\ Has(c, "contains")
            /\ MeetsLengthBounds(v, c)
            /\ \E i \in 1..Len(v.a) : ~ElementSatisfies(v.a[i], c.f.contains)
    THEN LET i == CHOOSE k \in 1..Len(v.a) :
                     /\ ~ElementSatisfies(v.a[k], c.f.contains)
                     /\ \A j \in 1..(k - 1) : ElementSatisfies(v.a[j], c.f.contains)
         IN <<"[" \o ToString(i - 1) \o "]">>
    ELSE IF c.f.type.s = "object" /\ v.t = "object" /\ Len(FailingKeys(v, c)) > 0
    THEN LET key == FailingKeys(v, c)[1]
             field == IF key \in KeyNames(c, "required") THEN "required" ELSE "optional"
         IN IF HasKey(v.o, key) /\ key \in KeyNames(c, field) /\ c.f[field].k = "map"
            THEN <<key>> \o ViolatingNode(GetKey(v.o, key), GetKey(c.f[field].m, key))
            ELSE <<>>
    ELSE <<>>

\* C31: two values rejected by the same schema at different nodes are
\* rejected with different diagnostics, each naming its own node, also when
\* the schema is a list of alternatives.
C31_DiagnosticLocalizesTheNode ==
    [][(/\ Validated /\ Rejected
        /\ obs'.op = "checkParameters"
        /\ ~obs'.result.threw /\ ~obs'.result.ok
        /\ obs'.constraints = obs.constraints
        /\ ViolatingNode(obs'.parameters, obs.constraints)
             # ViolatingNode(obs.parameters, obs.constraints))
       => obs'.result.reason # obs.result.reason]_vars

\* C32: every error in an answer is built from the failure of its own
\* request: it carries the message that request failed with, the fields
\* that request's failure gives it, and no field of another request.
C32_ErrorResponsesAreFresh ==
    Answered =>
        \A i \in Slots :
            LET o == call.members[i].thrown
                e == call.out.resps[i].error
            IN
            e # NullError =>
                /\ o.k = "string" => MessageOf(e) = o.s
                /\ (o.k = "Error" /\ o.message # "Access denied")
                      => MessageOf(e) = o.message
                /\ o.k = "object"
                      => \A f \in DOMAIN o.fields : f \in DOMAIN e /\ e[f] = o.fields[f]
                /\ DOMAIN e \subseteq
                      {"code", "message"}
                      \cup (IF o.k = "object" THEN DOMAIN o.fields
                            ELSE IF o = ThrowTemplate("parameters") THEN {"reason"}
                            ELSE {})

\* The sessions whose connection table holds the connection.
HoldersOf(connection) ==
    {j \in 1..Len(store.sessions) : connection \in store.sessions[j].conns}

\* C33: a connection is in the connection table of at most one session at
\* any time, whichever tokens the requests arriving over it carry.
C33_ConnectionBoundToOneSession ==
    \A connection \in Conns : Cardinality(HoldersOf(connection)) <= 1

(***************************************************************************)
(* SpecPrincipal: sessions with principals that have some, all or none of  *)
(* getPermissions, checkPermission, summarize and serialize.               *)
(***************************************************************************)
PartialPrincipals ==
    {[k |-> "user", caps |-> caps, grants |-> {"adm"}] :
        caps \in {{}, {"getPermissions"}, {"checkPermission"}, {"summarize"},
                  {"serialize"},
                  {"getPermissions", "checkPermission", "summarize", "serialize"}}}

RequestsPrincipal(i) ==
    {Request("2.0", i, m, VNull, tk) : m \in {"session/state", "session/permissions"},
                                        tk \in 1..MaxSessions}
    \cup {Request("2.0", i, "adm", VStr("hi"), tk) : tk \in 1..MaxSessions}
    \cup {Request("2.0", i, "session/create", VNull, NoToken)}

NextPrincipal ==
    \/ Start("single", 1, NoConn)
    \/ \E r \in RequestsPrincipal(Len(call.members) + 1) : Dispatch(r)
    \/ Classify
    \/ \E o \in Outcomes(1, AppReturns) : Complete(1, o)
    \/ Finish
    \/ Deliver
    \/ \E i \in 1..MaxSessions : \E u \in PartialPrincipals : SetUser(i, u)

SpecPrincipal == Init /\ [][NextPrincipal]_vars

\* C34: for a session whose principal lacks any of its optional functions,
\* the permission check, the permission listing and the state method all
\* complete: a private method is answered with its result or AccessDenied,
\* the listing and the state are answered with a result.
C34_MissingCapabilitiesAreAbsent ==
    Answered =>
        \A i \in Slots :
            LET m == call.members[i]
                e == call.out.resps[i].error
            IN
            (Resolved(i) /\ m.pre.user # NoUser) =>
                /\ m.req.method \in {"session/state", "session/permissions"}
                      => e = NullError
                /\ m.req.method = "adm"
                      => IF Authorized(i) THEN e = NullError ELSE CodeOf(e) = -32000

(***************************************************************************)
(* SpecSweep: the idle sweep on its timer while requests come and go.  A   *)
(* pending timeout fires whenever the event loop is between tasks, however *)
(* often requests interrupt (strong fairness of Gc); a call in flight runs *)
(* to its answer (weak fairness of its steps).  Nothing makes a request    *)
(* arrive or the clock advance.                                            *)
(***************************************************************************)
RequestsSweep(i) ==
    {Request("2.0", i, "ping", VNull, tk) : tk \in Tokens}
    \cup {Request("2.0", i, "session/create", VNull, NoToken)}

NextSweep ==
    \/ Start("single", 1, NoConn)
    \/ \E r \in RequestsSweep(Len(call.members) + 1) : Dispatch(r)
    \/ Classify
    \/ \E o \in Outcomes(1, AppReturns) : Complete(1, o)
    \/ Finish
    \/ Deliver
    \/ Tick
    \/ Gc

SpecSweep ==
    /\ Init
    /\ [][NextSweep]_vars
    /\ SF_vars(Gc)
    /\ WF_vars(\E r \in RequestsSweep(Len(call.members) + 1) : Dispatch(r))
    /\ WF_vars(Classify)
    /\ WF_vars(\E o \in Outcomes(1, AppReturns) : Complete(1, o))
    /\ WF_vars(Finish)
    /\ WF_vars(Deliver)

\* C35: with a timeout configured the idle sweep runs again and again for
\* as long as the process lives: at every moment another sweep is still to
\* come, whether or not requests arrive.
C35_SweepRunsForever == []<><<Gc>>_vars

\* A sweep has run and left the next one scheduled.
C35_Witness == obs.op = "gc" /\ store.gcTimer = 2

\* The names in the array the store hands to new sessions.
DefaultPermissions ==
    {store.heap[store.publicMethods][k] : k \in 1..Len(store.heap[store.publicMethods])}

\* C36: whatever methods were registered and deleted, sessions created and
\* permissions added to or removed from sessions, the store's permission
\* list for new sessions holds exactly the names of the registered public
\* methods.
C36_DefaultsArePublicMethods ==
    DefaultPermissions = {methods[k][1] : k \in {j \in 1..Len(methods) : methods[j][2].public}}

(***************************************************************************)
(* SpecBatch: batches whose members create, use and destroy sessions.      *)
(***************************************************************************)
RequestsBatch(i) ==
    {Request("2.0", i, m, VNull, tk) : m \in {"ping", "session/destroy"}, tk \in Tokens}
    \cup {Request("2.0", i, "session/create", VNull, NoToken)}

NextBatch ==
    \/ \E n \in 1..MaxBatch : Start("batch", n, NoConn)
    \/ \E r \in RequestsBatch(Len(call.members) + 1) : Dispatch(r)
    \/ Classify
    \/ \E i \in 1..MaxBatch : \E o \in Outcomes(i, AppReturns) : Complete(i, o)
    \/ Finish
    \/ Deliver

SpecBatch == Init /\ [][NextBatch]_vars

\* Member i destroyed the session its token named.
DestroyedOwn(i) ==
    /\ call.members[i].req.method = "session/destroy"
    /\ call.members[i].invoked
    /\ Resolved(i)

\* C37: the members of a batch pass session resolution, permission check,
\* validation and the start of their callback one after the other: a later
\* member carrying the token of a session that an earlier member destroyed
\* is refused as InvalidToken before any callback, and the member after one
\* that created a session resolves that session's token.
C37_BatchMembersRunInOrder ==
    \A i \in Slots : \A j \in Slots :
        i < j =>
            /\ (DestroyedOwn(i) /\ call.members[j].req.token = call.members[i].req.token)
                  => /\ call.members[j].thrown = ThrowTemplate("invalidToken")
                     /\ ~call.members[j].invoked
            /\ (/\ j = i + 1
                /\ call.members[i].req.method = "session/create"
                /\ call.members[i].invoked
                /\ call.members[i].thrown = Return(VNum(call.members[j].req.token)))
                  => /\ call.members[j].invoked
                     /\ Resolved(j)

\* A batch in which a member destroyed its session and a later member
\* carried the same token, and one in which a member used the token of the
\* session the member before it created.
C37_Witness ==
    /\ call.phase = "done"
    /\ \E i \in Slots : \E j \in Slots :
          /\ i < j
          /\ \/ DestroyedOwn(i) /\ call.members[j].req.token = call.members[i].req.token
             \/ /\ j = i + 1
                /\ call.members[i].req.method = "session/create"
                /\ call.members[i].thrown = Return(VNum(call.members[j].req.token))

\* The connection identifiers for which session j keeps a subscription set.
SubscriptionKeys(j) ==
    {store.sessions[j].subs[k][1] : k \in 1..Len(store.sessions[j].subs)}

\* C38: in every session the identifiers that have a subscription set are
\* exactly the identifiers in the connection table, so push finds a
\* connection for every subscription set it visits.
C38_SubscriptionSetsMatchConnections ==
    \A j \in 1..Len(store.sessions) : SubscriptionKeys(j) = store.sessions[j].conns

\* A connection has been closed while a session still has another one
\* bound, with a subscription on it.
C38_Witness ==
    /\ obs.op = "close"
    /\ \E j \in 1..Len(store.sessions) :
          /\ store.sessions[j].conns # {}
          /\ \E k \in 1..Len(store.sessions[j].subs) : Len(store.sessions[j].subs[k][2]) > 0

(***************************************************************************)
(* SpecSubscribe: the push subscribe method of the session store called    *)
(* with one topic or a list of topics.                                     *)
(***************************************************************************)
\* The second loop of SessionManager.subscribe: session.subscribe for each
\* topic from position index on.
RECURSIVE subscribeEach(_, _, _, _, _, _)
subscribeEach(sess, perms, topics, identifier, index, result) ==
    IF index > Len(topics) THEN [threw |-> "", result |-> result, subs |-> sess.subs]
    ELSE LET r == subscribe(sess, perms, topics[index], identifier) IN
         IF r.threw # "" THEN [threw |-> r.threw, result |-> result, subs |-> sess.subs]
         ELSE subscribeEach([sess EXCEPT !.subs = r.subs], perms, topics, identifier,
                            index + 1, Append(result, r.result))

\* SessionManager.subscribe without its first loop.
subscribeListUnchecked(st, session, parameters, connection) ==
    IF session = 0
    THEN [threw |-> "No session", result |-> <<>>, subs |-> <<>>]
    ELSE subscribeEach(st.sessions[session], st.heap[st.sessions[session].perms],
                       parameters, connection, 1, <<>>)

\* SessionManager.subscribe(parameters, session, connection) with a list of
\* topics; a connection has an identifier once a session has bound it.
subscribeList(st, session, parameters, connection) ==
    IF session = 0
    THEN [threw |-> "No session", result |-> <<>>, subs |-> <<>>]
    ELSE LET sess == st.sessions[session]
             perms == st.heap[sess.perms]
             refuse(message) == [threw |-> message, result |-> <<>>, subs |-> sess.subs]
         IN IF connection = NoConn THEN refuse("No persistent connection")
            ELSE IF \A j \in 1..Len(st.sessions) : connection \notin st.sessions[j].conns
            THEN refuse("Connection doesn't have an identifier")
            ELSE IF \E k \in 1..Len(parameters) :
                        ~checkPermission(perms, sess.user, parameters[k])
            THEN refuse("Access denied")
            ELSE subscribeEach(sess, perms, parameters, connection, 1, <<>>)

\* The subscribe method is called for session i (0: no session) over the
\* connection with a list of topics.
SubscribeList(i, connection, parameters) ==
    /\ call.phase = "idle"
    /\ i \in 0..Len(store.sessions)
    /\ LET r == subscribeList(store, i, parameters, connection) IN
        /\ store' = IF i = 0 THEN store ELSE [store EXCEPT !.sessions[i].subs = r.subs]
        /\ obs' = [op |-> "subscribeList", session |-> i, connection |-> connection,
                   parameters |-> parameters, threw |-> r.threw, result |-> r.result,
                   before |-> IF i = 0 THEN <<>> ELSE store.sessions[i].subs,
                   authorized |-> IF i = 0 THEN {}
                                  ELSE {k \in 1..Len(parameters) :
                                          checkPermission(store.heap[store.sessions[i].perms],
                                                          store.sessions[i].user,
                                                          parameters[k])}]
    /\ UNCHANGED <<sm, enable, methods, errors, nextId, now, hooks, call>>

TopicLists ==
    {<<>>, <<"echo">>, <<"news">>, <<"echo", "news">>, <<"news", "echo">>, <<"echo", "echo">>}

NextSubscribe ==
    \/ Start("single", 1, "cA")
    \/ \E r \in RequestsSweep(Len(call.members) + 1) : Dispatch(r)
    \/ Classify
    \/ \E o \in Outcomes(1, AppReturns) : Complete(1, o)
    \/ Finish
    \/ Deliver
    \/ \E i \in 1..MaxSessions : AddPermission(i, "news")
    \/ \E i \in 0..MaxSessions : \E c \in {NoConn, "cA"} : \E p \in TopicLists :
          SubscribeList(i, c, p)

SpecSubscribe == Init /\ [][NextSubscribe]_vars

\* The topics of the list up to position k.
TopicsUpTo(parameters, k) == {parameters[n] : n \in 1..k}

\* The topics a subscription table holds for the connection.
TopicsOf(subs, connection) ==
    IF HasKey(subs, connection)
    THEN {GetKey(subs, connection)[n] : n \in 1..Len(GetKey(subs, connection))}
    ELSE {}

\* C39: subscribing to a list of topics is all or nothing.  When a topic
\* of the list is not authorized for the session, or the connection is not
\* bound to the session, the call fails and the subscription sets stay as
\* they were; otherwise every topic of the list is subscribed and the call
\* returns one flag per topic, true exactly for a topic that was not
\* subscribed before.
C39_SubscribeListIsAllOrNothing ==
    (obs.op = "subscribeList" /\ obs.session # 0) =>
        LET after == store.sessions[obs.session].subs
            n == Len(obs.parameters)
        IN
        IF obs.authorized # 1..n \/ ~HasKey(obs.before, obs.connection)
        THEN obs.threw # "" /\ after = obs.before
        ELSE /\ obs.threw = ""
             /\ Len(obs.result) = n
             /\ \A k \in 1..n :
                   obs.result[k] =
                      (obs.parameters[k] \notin TopicsOf(obs.before, obs.connection)
                                                   \cup TopicsUpTo(obs.parameters, k - 1))
             /\ TopicsOf(after, obs.connection)
                   = TopicsOf(obs.before, obs.connection) \cup TopicsUpTo(obs.parameters, n)
             /\ \A c \in Conns \ {obs.connection} :
                   TopicsOf(after, c) = TopicsOf(obs.before, c)

\* C39, amended: subscribing to a list of topics is all or nothing.  When
\* a topic of the list is not authorized for the session, or the list is
\* not empty and the connection is not bound to the session, the call fails
\* and the subscription sets stay as they were; an empty list changes
\* nothing and, when the call does not fail, is answered with an empty list
\* of flags; otherwise every topic of the list is subscribed and the call
\* returns one flag per topic, true exactly for a topic that was not
\* subscribed before.
C39_NonEmptyListIsAllOrNothing ==
    (obs.op = "subscribeList" /\ obs.session # 0) =>
        LET after == store.sessions[obs.session].subs
            n == Len(obs.parameters)
            bound == HasKey(obs.before, obs.connection)
        IN
        IF obs.authorized # 1..n \/ (~bound /\ n > 0)
        THEN obs.threw # "" /\ after = obs.before
        ELSE IF ~bound
        THEN after = obs.before /\ (obs.threw # "" \/ obs.result = <<>>)
        ELSE /\ obs.threw = ""
             /\ Len(obs.result) = n
             /\ \A k \in 1..n :
                   obs.result[k] =
                      (obs.parameters[k] \notin TopicsOf(obs.before, obs.connection)
                                                   \cup TopicsUpTo(obs.parameters, k - 1))
             /\ TopicsOf(after, obs.connection)
                   = TopicsOf(obs.before, obs.connection) \cup TopicsUpTo(obs.parameters, n)
             /\ \A c \in Conns \ {obs.connection} :
                   TopicsOf(after, c) = TopicsOf(obs.before, c)

\* A list with an unauthorized topic after an authorized one was refused
\* for a bound connection, and a list was accepted for a connection that
\* already had one of its topics.
C39_Witness ==
    /\ obs.op = "subscribeList"
    /\ obs.session # 0
    /\ HasKey(obs.before, obs.connection)
    /\ \/ obs.parameters = <<"echo", "news">> /\ obs.authorized = {1}
       \/ /\ obs.authorized = {1, 2}
          /\ obs.result = <<FALSE, TRUE>>

(***************************************************************************)
(* SpecFlags: dispatchers constructed with every combination of the two    *)
(* built-in flags, with and without a session store, asked for ping and    *)
(* usage.                                                                  *)
(***************************************************************************)
InitFlags ==
    \E aSessionManager \in BOOLEAN, aEnablePing \in BOOLEAN, aEnableUsage \in BOOLEAN :
        InitNew(aSessionManager, aEnablePing, aEnableUsage)

NextFlags ==
    \/ Start("single", 1, NoConn)
    \/ \E n \in 1..MaxBatch : Start("batch", n, NoConn)
    \/ \E r \in RequestsBuiltins(Len(call.members) + 1) : Dispatch(r)
    \/ Classify
    \/ \E i \in 1..MaxBatch : \E o \in Outcomes(i, AppReturns) : Complete(i, o)
    \/ Finish
    \/ Deliver

SpecFlags == InitFlags /\ [][NextFlags]_vars

\* Member i of the answered call is a well-formed request for the built-in
\* `name`, without token and without parameters.
AsksBuiltin(i, name) ==
    /\ ValidEnvelope(call.members[i].req)
    /\ call.members[i].req.method = name
    /\ call.members[i].req.token = NoToken
    /\ call.members[i].req.params = VNull

\* C40: each built-in is controlled by its own constructor flag: a
\* dispatcher constructed with ping disabled and usage enabled answers
\* `usage` with a result and answers `ping` with MethodNotFound (-32601),
\* and a dispatcher constructed with usage disabled and ping enabled answers
\* `ping` with "pong".
C40_EachFlagControlsItsBuiltin ==
    Answered =>
        \A i \in 1..Len(call.members) :
            LET r == call.out.resps[i] IN
            /\ (~enable.ping /\ enable.usage /\ AsksBuiltin(i, "usage"))
                    => r.error = NullError /\ r.result # VNull
            /\ (~enable.ping /\ enable.usage /\ AsksBuiltin(i, "ping"))
                    => CodeOf(r.error) = -32601
            /\ (enable.ping /\ ~enable.usage /\ AsksBuiltin(i, "ping"))
                    => r.error = NullError /\ r.result = VStr("pong")
====
